---- MODULE Spec2Model ----
(***************************************************************************)
(* Model of the ESP32 Tuya bridge: the serial frame codec (sniffer.cpp)    *)
(* and the thermostat controller (appSpecific.cpp).                        *)
(*                                                                         *)
(* C strings are sequences of one-character strings, bytes are 0..255,     *)
(* int32_t values are the model checker's own 32 bit integers (an overflow *)
(* stops the check), uint32_t values are kept below 2^31, and float values *)
(* are fixed-point integers counting hundredths of a unit.                 *)
(*                                                                         *)
(* The handlers call one another synchronously, so each C function is an   *)
(* operator from a program-state record to a program-state record, and an  *)
(* action commits the record its handler returns.                          *)
(***************************************************************************)
EXTENDS Integers, Sequences, FiniteSets, TLC

VARIABLES
  tuyaIdx, haveHdr, msgLen, tuyaData,      \* processTuyaByte statics, per port
  mcuTuya,                                 \* last parsed frame (tuyaStruct)
  gotHeartbeat, heatingElapsed, currentTemp, alpha, drift, ESPcontroller,
  tgtTemp, backLash, baseCal, heatingOn, schedule,
  slotCnt,                                 \* updateAppStatus static
  currentSlot, slotDuration, startTime, changedSlot,   \* checkSchedule statics
  dpStartTime,                             \* processDP static startTime
  oldWifiStatus, sentTime,                 \* sendWifiStatus / sendLocalTime statics
  hbInterval,                              \* heartBeat's sleep, in seconds
  configLoaded, timeSynchronized, wifiConnected, millis, wallSecs,  \* environment
  USE_SNIFFER,                             \* build setting: pass-through only
  out, ui, delivered, ctl,                 \* what the last handler wrote / published / delivered
  entered,                                 \* the slots activated so far, with their durations
  rx, sentFrame, nFed, nDelivered, junk,   \* serial line feeding the decoder
  op, nOps, nTicks,                        \* last operation, and the environment's step counts
  hbTask,                                  \* the heartbeat task's position and the MCU's replies
  session,                                 \* when heating was turned on, and for how long in all
  readMutex, writeMutex,                   \* the task that holds the mutex, or "free"
  task,                                    \* where each task is, and what it has in hand
  wire,                                    \* the latest write to a port
  update,                                  \* each task's call of updateAppStatus: where it is, its locals
  flushed                                  \* the schedule frames written so far

vars == <<tuyaIdx, haveHdr, msgLen, tuyaData, mcuTuya, gotHeartbeat, heatingElapsed,
          currentTemp, alpha, drift, ESPcontroller, tgtTemp, backLash, baseCal,
          heatingOn, schedule, slotCnt, currentSlot, slotDuration, startTime,
          changedSlot, dpStartTime, oldWifiStatus, sentTime, hbInterval,
          configLoaded, timeSynchronized, wifiConnected, millis, wallSecs,
          USE_SNIFFER, out, ui, delivered, ctl, entered, rx, sentFrame, nFed,
          nDelivered, junk, op, nOps, nTicks, hbTask, session, readMutex,
          writeMutex, task, wire, update, flushed>>

----------------------------------------------------------------------------
(* Program constants *)

\* size of the message buffers; the firmware's value is scaled down
BUFF_LEN == 64
TIME_SLOTS == 8
USED_SLOTS == 6
SECS_IN_DAY == 24 * 60 * 60
TGT_TEMP == 4
SECS_COL == 5
LONG_MIN == -2147483647 - 1
LONG_MAX == 2147483647
HDR0 == 85
HDR1 == 170

Min(a, b) == IF a < b THEN a ELSE b
Pow2(n) == 2 ^ n
Byte(n) == n % 256
\* C integer division and float-to-int conversion truncate toward zero
TruncDiv(a, b) == IF a >= 0 THEN a \div b ELSE -((-a) \div b)

----------------------------------------------------------------------------
(* C strings *)

NUL == "\\0"
DigitChars == <<"0", "1", "2", "3", "4", "5", "6", "7", "8", "9">>
IsDigit(c) == c \in {"0", "1", "2", "3", "4", "5", "6", "7", "8", "9"}
DigitVal(c) == CHOOSE d \in 0..9 : DigitChars[d + 1] = c
IsSpace(c) == c \in {" ", "\t", "\n"}
CharAt(str, p) == IF p >= 1 /\ p <= Len(str) THEN str[p] ELSE NUL
\* character code of the characters the program does arithmetic on
Ord(c) == IF IsDigit(c) THEN 48 + DigitVal(c) ELSE IF c = NUL THEN 0 ELSE 58

RECURSIVE SkipSpace(_, _)
SkipSpace(str, p) == IF IsSpace(CharAt(str, p)) THEN SkipSpace(str, p + 1) ELSE p

\* acc * 10 + d, or acc * 10 - d for a negative number, clamped to the range of long
AddDigit(acc, d, neg) ==
  IF neg
  THEN (IF acc < -214748364 \/ (acc = -214748364 /\ d > 8) THEN LONG_MIN ELSE acc * 10 - d)
  ELSE (IF acc > 214748364 \/ (acc = 214748364 /\ d > 7) THEN LONG_MAX ELSE acc * 10 + d)

\* digits from position p on: <<signed value, position after the digits>>
RECURSIVE ScanDigits(_, _, _, _)
ScanDigits(str, p, acc, neg) ==
  IF IsDigit(CharAt(str, p))
  THEN ScanDigits(str, p + 1, AddDigit(acc, DigitVal(str[p]), neg), neg)
  ELSE <<acc, p>>

SignLen(str, q) == IF CharAt(str, q) \in {"-", "+"} THEN 1 ELSE 0
StrtolDigits(p, r, d) == IF d[2] = r THEN <<0, p>> ELSE d
StrtolFrom(str, p, q) ==
  StrtolDigits(p, q + SignLen(str, q),
               ScanDigits(str, q + SignLen(str, q), 0, CharAt(str, q) = "-"))
\* strtol(str + p - 1, &end, 10) with a 32 bit long: <<value, end>>; end = p when
\* no digits were found
Strtol(str, p) == StrtolFrom(str, p, SkipSpace(str, p))

Atoi(str) == Strtol(str, 1)[1]

\* fraction digits from position p on, as hundredths: two digits are kept
RECURSIVE ScanFrac(_, _, _, _)
ScanFrac(str, p, acc, n) ==
  IF IsDigit(CharAt(str, p))
  THEN ScanFrac(str, p + 1, IF n < 2 THEN acc * 10 + DigitVal(str[p]) ELSE acc,
                IF n < 2 THEN n + 1 ELSE n)
  ELSE IF n = 0 THEN 0 ELSE IF n = 1 THEN acc * 10 ELSE acc

AtofFrac(str, d, neg) ==
  IF neg
  THEN d[1] * 100 - (IF CharAt(str, d[2]) = "." THEN ScanFrac(str, d[2] + 1, 0, 0) ELSE 0)
  ELSE d[1] * 100 + (IF CharAt(str, d[2]) = "." THEN ScanFrac(str, d[2] + 1, 0, 0) ELSE 0)
AtofFrom(str, q) ==
  AtofFrac(str, ScanDigits(str, q + SignLen(str, q), 0, CharAt(str, q) = "-"),
           CharAt(str, q) = "-")
\* atof(str) in hundredths
Atof(str) == AtofFrom(str, SkipSpace(str, 1))

RECURSIVE FmtNat(_)
FmtNat(n) == IF n < 10 THEN <<DigitChars[n + 1]>>
             ELSE FmtNat(n \div 10) \o <<DigitChars[(n % 10) + 1]>>
\* sprintf "%d", "%u", "%hhu", "%02u"
FmtD(n) == IF n = LONG_MIN THEN <<"-", "2", "1", "4", "7", "4", "8", "3", "6", "4", "8">>
           ELSE IF n < 0 THEN <<"-">> \o FmtNat(-n) ELSE FmtNat(n)
Pad5(n) == [i \in 1..(5 - Len(FmtNat(n))) |-> "0"] \o FmtNat(n)
\* a negative int printed as unsigned is 4294967296 + n, formed in two halves
FmtUNeg(hi, lo) ==
  IF lo < 0 THEN FmtNat(hi - 1) \o Pad5(lo + 100000) ELSE FmtNat(hi) \o Pad5(lo)
FmtU(n) ==
  IF n >= 0 THEN FmtNat(n)
  ELSE FmtUNeg(42949 - ((-(n + 1)) \div 100000), 67295 - ((-(n + 1)) % 100000))
FmtHHU(n) == FmtNat(n % 256)
Fmt02(n) == IF n < 10 THEN <<"0">> \o FmtNat(n) ELSE FmtNat(n)
\* sprintf "%0.1f" of a value in hundredths: t is the value rounded to tenths
FmtTenths(neg, t) ==
  (IF neg /\ t > 0 THEN <<"-">> ELSE <<>>) \o FmtNat(t \div 10) \o <<".">> \o FmtNat(t % 10)
FmtF1(x) == FmtTenths(x < 0, ((IF x < 0 THEN -x ELSE x) + 5) \div 10)

----------------------------------------------------------------------------
(* sniffer.cpp: processTuyaMsg *)

\* getNumber: <<value or LONG_MIN, new endPtr>>
GetNumberAt(p, r) == IF r[2] = p THEN <<LONG_MIN, p>> ELSE r
GetNumber(msg, p) == GetNumberAt(p, Strtol(msg, p))

\* while ((thisNum = getNumber(wsMsg)) != LONG_MIN) tuyaCmd[++idx] = thisNum & 0xFF
\* gives <<tuyaCmd, idx>>
RECURSIVE StoreData(_, _, _, _)
RECURSIVE StoreNum(_, _, _, _)
StoreNum(buf, idx, msg, r) ==
  IF r[1] = LONG_MIN THEN <<buf, idx>>
  ELSE StoreData([buf EXCEPT ![idx + 1] = Byte(r[1])], idx + 1, msg, r[2])
StoreData(buf, idx, msg, p) == StoreNum(buf, idx, msg, GetNumber(msg, p))

\* byte i (0 = least significant) of an int32_t: intVal >> (8 * i), as uint8_t
IntByte(intVal, i) == (intVal \div Pow2(8 * i)) % 256

\* the outer length field: idx - 5, idx the index of the last payload byte
DataLenBad(idx) == idx - 4
DataLen(idx) == idx - 5
\* the datapoint's own length field
DpLen(idx) == idx - 9
\* wifi sends version 0, mcu sends version 3
VersionByte(uartNum) == IF uartNum = 0 THEN 0 ELSE 3

RECURSIVE SumTo(_, _)
SumTo(buf, n) == IF n = 0 THEN 0 ELSE buf[n - 1] + SumTo(buf, n - 1)
\* tuyaCmd[idx] = 0; for (i = 0; i < idx; i++) tuyaCmd[idx] += tuyaCmd[i], in uint8_t
CheckSumNoHdr(buf, idx) == (SumTo(buf, idx) - buf[0] - buf[1]) % 256
CheckSum(buf, idx) == SumTo(buf, idx) % 256

\* the uninitialised tuyaCmd buffer
RawBuf == [i \in 0..(BUFF_LEN - 1) |-> -1]

\* the bytes written: tuyaCmd[0 .. idx]
Written(buf, idx) == [i \in 1..(idx + 1) |-> buf[i - 1]]
AddCheckSum(buf, idx) == Written([buf EXCEPT ![idx] = CheckSum(buf, idx)], idx)
\* "derive rest of tuya command": header, version and the length fields
Derive(uartNum, isDP, buf, idx) ==
  AddCheckSum([buf EXCEPT ![0] = HDR0, ![1] = HDR1, ![2] = VersionByte(uartNum),
                          ![4] = Byte(DataLen(idx) \div 256), ![5] = Byte(DataLen(idx)),
                          ![8] = IF isDP THEN Byte(DpLen(idx) \div 256) ELSE @,
                          ![9] = IF isDP THEN Byte(DpLen(idx)) ELSE @],
              idx + 1)
BuildData(uartNum, isDP, st) == Derive(uartNum, isDP, st[1], st[2])
\* a datapoint of type int: the value is decomposed into 4 big endian bytes
BuildInt(uartNum, wsMsg, buf, n4) ==
  BuildData(uartNum, TRUE,
            StoreData([buf EXCEPT ![13] = IntByte(n4[1], 0), ![12] = IntByte(n4[1], 1),
                                  ![11] = IntByte(n4[1], 2), ![10] = IntByte(n4[1], 3)],
                      13, wsMsg, n4[2]))
BuildType(uartNum, wsMsg, buf, n3) ==
  IF Byte(n3[1]) = 2
  THEN BuildInt(uartNum, wsMsg, [buf EXCEPT ![7] = Byte(n3[1])], GetNumber(wsMsg, n3[2]))
  ELSE BuildData(uartNum, TRUE, StoreData([buf EXCEPT ![7] = Byte(n3[1])], 9, wsMsg, n3[2]))
BuildDP(uartNum, wsMsg, buf, n2) ==
  BuildType(uartNum, wsMsg, [buf EXCEPT ![6] = Byte(n2[1])], GetNumber(wsMsg, n2[2]))
BuildCmd(uartNum, wsMsg, n1) ==
  IF Byte(n1[1]) = 6 \/ Byte(n1[1]) = 7
  THEN BuildDP(uartNum, wsMsg, [RawBuf EXCEPT ![3] = Byte(n1[1])], GetNumber(wsMsg, n1[2]))
  ELSE BuildData(uartNum, FALSE, StoreData([RawBuf EXCEPT ![3] = Byte(n1[1])], 5, wsMsg, n1[2]))
\* the bytes processTuyaMsg writes for wsMsg to port uartNum
BuildTuya(uartNum, wsMsg) == BuildCmd(uartNum, wsMsg, GetNumber(wsMsg, 2))

\* processTuyaMsg: the destination is the first character, 'M' or 'W'; anything
\* else writes nothing.  formatTuya(.., false) of the written bytes only logs.
ProcessTuyaMsg(s, wsMsg) ==
  IF CharAt(wsMsg, 1) \in {"M", "W"}
  THEN [s EXCEPT !.out = Append(@, [port |-> IF CharAt(wsMsg, 1) = "M" THEN 0 ELSE 1,
                                     bytes |-> BuildTuya(IF CharAt(wsMsg, 1) = "M" THEN 0 ELSE 1,
                                                         wsMsg)])]
  ELSE s

----------------------------------------------------------------------------
(* sniffer.cpp: formatTuya, the part that fills mcuTuya *)

\* mcuTuya.tuyaData[y - i] = tuyaData[y] for y in i .. tuyaDataLen - 2
CopyData(old, data, i, len) ==
  [k \in DOMAIN old |-> IF k <= len - 2 - i THEN data[i + k] ELSE old[k]]

\* (tuyaData[10] << 24) | (tuyaData[11] << 16) | (tuyaData[12] << 8) | tuyaData[13]
BigEndian32(data) ==
  (IF data[10] >= 128 THEN data[10] - 256 ELSE data[10]) * Pow2(24)
  + data[11] * Pow2(16) + data[12] * Pow2(8) + data[13]

\* data is the whole receive buffer, len the number of bytes of the message
FormatTuya(s, data, len, isProcessed) ==
  IF s.USE_SNIFFER \/ ~isProcessed \/ len <= 3 THEN s
  ELSE
    LET m == s.mcuTuya
        DP == data[3] = 6 \/ data[3] = 7
        ty == data[7]
        m1 == [m EXCEPT !.tuyaCmd = data[3], !.tuyaDP = data[6]]
        m2 == IF DP
              THEN IF 10 < len - 1
                   THEN IF ty \in {0, 3, 5}
                        THEN [m1 EXCEPT !.tuyaData = CopyData(@, data, 10, len)]
                        ELSE IF ty \in {1, 4}
                        THEN [m1 EXCEPT !.tuyaData[0] = data[10]]
                        ELSE IF ty = 2
                        THEN [m1 EXCEPT !.tuyaInt = BigEndian32(data)]
                        ELSE m1
                   ELSE m1
              ELSE IF 6 < len - 1
                   THEN [m1 EXCEPT !.tuyaData = CopyData(@, data, 6, len)]
                   ELSE m1
    IN [s EXCEPT !.mcuTuya = m2]

----------------------------------------------------------------------------
(* appSpecific.cpp *)

SP == <<" ">>
Key(name) == <<name, NUL>>
\* "M 6 <dp> <type> <value>"
DpMsg(dp, type, val) ==
  <<"M", " ", "6", " ">> \o FmtNat(dp) \o SP \o FmtNat(type) \o SP \o val

WsJsonSend(s, keyStr, valStr) == [s EXCEPT !.ui = Append(@, <<keyStr, valStr>>)]

SendWifiStatus(s, demanded) ==
  LET newWifiStatus == IF s.wifiConnected THEN 4 ELSE 0
  IN IF newWifiStatus # s.oldWifiStatus \/ demanded
     THEN ProcessTuyaMsg([s EXCEPT !.oldWifiStatus = newWifiStatus],
                         <<"M", " ", "3", " ">> \o FmtNat(newWifiStatus))
     ELSE s

\* strftime "M 28 1 %y %m %d %H %M %S %w"; the date is that of the model's day
LocalTimeMsg(secs) ==
  <<"M", " ", "2", "8", " ", "1", " ", "2", "2", " ", "0", "1", " ", "0", "1", " ">>
  \o Fmt02(secs \div 3600) \o SP \o Fmt02((secs \div 60) % 60) \o SP
  \o Fmt02(secs % 60) \o SP \o <<"6">>
NoTimeMsg ==
  <<"M", " ", "2", "8", " ", "0", " ", "0", " ", "0", " ", "0", " ", "0", " ", "0",
    " ", "0", " ", "0">>

SendLocalTime(s, demanded) ==
  IF (s.timeSynchronized /\ ~s.sentTime) \/ demanded
  THEN ProcessTuyaMsg([s EXCEPT !.sentTime = s.timeSynchronized \/ @],
                      IF s.timeSynchronized THEN LocalTimeMsg(s.wallSecs) ELSE NoTimeMsg)
  ELSE s

ToInt16(n) == LET m == n % Pow2(16) IN IF m >= Pow2(15) THEN m - Pow2(16) ELSE m
\* (int32_t)(fltVal * 10), fltVal in hundredths
TimesTen(flt) == TruncDiv(flt * 10, 100)

\* sscanf(value, "%hhu:%hhu", &hour, &mins) of a well-formed value
ScanMins(value, h) == <<Byte(h[1]), Byte(Strtol(value, h[2] + 1)[1])>>
ScanTime(value) == ScanMins(value, Strtol(value, 1))

\* the complete schedule as "HH MM TH TL ..." without the last space
RECURSIVE SlotsText(_, _)
SlotsText(sched, i) ==
  IF i >= TIME_SLOTS THEN <<>>
  ELSE FmtHHU(sched[i][0]) \o SP \o FmtHHU(sched[i][1]) \o SP \o FmtHHU(sched[i][2])
       \o SP \o FmtHHU(sched[i][3]) \o (IF i = TIME_SLOTS - 1 THEN <<>> ELSE SP)
       \o SlotsText(sched, i + 1)

\* tempCal: if (ESPcontroller) msgReady = false
TempCalReadyBad(esp) == TRUE
TempCalReady(esp) == ~esp

\* updateAppStatus, the sprintf of each key: <<formatted, msgReady>>
Formatted(esp, name, intVal, fltVal) ==
  CASE name = "tgtTemp" -> <<DpMsg(2, 2, FmtD(intVal * 10)), TRUE>>
    [] name = "floorMax" -> <<DpMsg(107, 2, FmtD(intVal)), TRUE>>
    [] name = "tempSensor" -> <<DpMsg(25, 4, FmtU(intVal)), TRUE>>
    [] name = "progMode" -> <<DpMsg(4, 4, FmtU(intVal)), TRUE>>
    [] name = "frost" -> <<DpMsg(26, 1, FmtU(intVal)), TRUE>>
    [] name = "switchDisp" -> <<DpMsg(1, 1, FmtU(intVal)), TRUE>>
    [] name = "childLock" -> <<DpMsg(8, 1, FmtU(intVal)), TRUE>>
    [] name = "roomMax" -> <<DpMsg(21, 2, FmtD(intVal)), TRUE>>
    [] name = "tempCal" -> <<DpMsg(20, 2, FmtD(TimesTen(fltVal))), TempCalReady(esp)>>
    [] name = "espCal" -> <<DpMsg(20, 2, FmtD(intVal)), TRUE>>
    [] name = "tempLash" -> <<DpMsg(105, 2, FmtD(TimesTen(fltVal))), TRUE>>
    [] name = "daySetting" -> <<DpMsg(42, 4, FmtU(intVal)), TRUE>>
    [] name = "backLight" -> <<DpMsg(41, 4, FmtU(intVal)), TRUE>>
    [] name = "doReset" -> <<DpMsg(31, 1, FmtU(intVal)), TRUE>>
    [] name = "doReverse" -> <<DpMsg(101, 1, FmtU(intVal)), TRUE>>
    [] name = "setCtrl" -> <<DpMsg(4, 4, FmtU(IF intVal # 0 THEN 0 ELSE 1)), TRUE>>
    [] OTHER -> <<<<"M", " ", "6", " ">>, FALSE>>

SetSlotTime(s, slot, hm) ==
  [s EXCEPT !.schedule[slot][0] = hm[1], !.schedule[slot][1] = hm[2],
            !.schedule[slot][SECS_COL] = ((hm[1] * 60) + hm[2]) * 60,
            !.slotCnt = @ + 1]
\* int16_t temp = fltVal * 10
SetSlotTemp(s, slot, temp) ==
  [s EXCEPT !.schedule[slot][2] = (temp \div 256) % 256,
            !.schedule[slot][3] = temp % 256,
            !.schedule[slot][TGT_TEMP] = temp,
            !.slotCnt = @ + 1]
\* updateAppStatus, the assignments of each key
Assigned(s, name, slot, intVal, fltVal, value) ==
  CASE name = "tempCal" -> [s EXCEPT !.baseCal = fltVal]
    [] name = "slotTime" /\ slot < TIME_SLOTS -> SetSlotTime(s, slot, ScanTime(value))
    [] name = "slotTemp" /\ slot < TIME_SLOTS -> SetSlotTemp(s, slot, ToInt16(TimesTen(fltVal)))
    [] name = "alpha" -> [s EXCEPT !.alpha = fltVal]
    [] name = "drift" -> [s EXCEPT !.drift = intVal]
    [] name = "setCtrl" -> [s EXCEPT !.ESPcontroller = (intVal # 0)]
    [] OTHER -> s

\* the complete schedule replaces the message once 16 slot edits were counted;
\* if (configLoaded && msgReady) processTuyaMsg(formatted)
FlushDueBad(cnt) == cnt > TIME_SLOTS * 2
FlushDue(cnt) == cnt >= TIME_SLOTS * 2
SendFormatted(s, f) ==
  IF s.configLoaded /\ (FlushDue(s.slotCnt) \/ f[2])
  THEN ProcessTuyaMsg([s EXCEPT !.slotCnt = IF FlushDue(@) THEN 0 ELSE @],
                      IF FlushDue(s.slotCnt)
                      THEN DpMsg(43, 0, SlotsText(s.schedule, 0)) ELSE f[1])
  ELSE [s EXCEPT !.slotCnt = IF FlushDue(@) THEN 0 ELSE @]

UpdateParsed(s, name, slot, intVal, fltVal, value) ==
  SendFormatted(Assigned(s, name, slot, intVal, fltVal, value),
                Formatted(s.ESPcontroller, name, intVal, fltVal))

\* updateAppStatus: variable is <<name, 9th character>>
UpdateAppStatus(s, variable, value) ==
  IF s.USE_SNIFFER THEN s
  ELSE UpdateParsed(s, variable[1], Byte(Ord(variable[2]) - 48 - 1), Atoi(value),
                    Atof(value), value)

----------------------------------------------------------------------------
(* appSpecific.cpp: checkSchedule *)

\* while (schedule[currentSlot][SECS_COL] > currentSecs) { currentSlot--; if (currentSlot < 0) break; }
RECURSIVE FindSlotBad(_, _, _)
FindSlotBad(sched, slot, secs) ==
  IF sched[slot][SECS_COL] >= secs
  THEN (IF slot - 1 < 0 THEN -1 ELSE FindSlotBad(sched, slot - 1, secs))
  ELSE slot
RECURSIVE FindSlot(_, _, _)
FindSlot(sched, slot, secs) ==
  IF sched[slot][SECS_COL] > secs
  THEN (IF slot - 1 < 0 THEN -1 ELSE FindSlot(sched, slot - 1, secs))
  ELSE slot

\* seconds remaining for the slot found on the first call (slot < 0: before first slot)
FirstDurationBad(sched, slot, secs) ==
  IF slot < 0 \/ slot = USED_SLOTS - 1
  THEN sched[0][SECS_COL] - secs
  ELSE sched[slot + 1][SECS_COL] - secs
FirstDuration(sched, slot, secs) ==
  IF slot < 0 \/ slot = USED_SLOTS - 1
  THEN (IF sched[0][SECS_COL] - secs < 0 THEN sched[0][SECS_COL] - secs + SECS_IN_DAY
        ELSE sched[0][SECS_COL] - secs)
  ELSE sched[slot + 1][SECS_COL] - secs

\* if (++currentSlot >= USED_SLOTS) currentSlot = 0
NextSlot(slot) == IF slot + 1 >= USED_SLOTS THEN 0 ELSE slot + 1
\* seconds of the slot entered by an advance
NextDurationBad(sched, slot) ==
  (IF slot < USED_SLOTS - 1 THEN sched[slot + 1][SECS_COL]
   ELSE sched[0][SECS_COL]) - sched[slot][SECS_COL]
NextDuration(sched, slot) ==
  (IF slot < USED_SLOTS - 1 THEN sched[slot + 1][SECS_COL]
   ELSE SECS_IN_DAY + sched[0][SECS_COL]) - sched[slot][SECS_COL]

\* a > b for uint32_t values held as int32_t (a negative one is 2^31 or more)
U32Gt(a, b) == IF (a < 0) = (b < 0) THEN a > b ELSE a < 0
\* millis() - startTime > slotDuration, compared as uint32_t
SlotExpired(now, start, duration) == U32Gt(now - start, duration)

FirstSlot(s, found) ==
  [s EXCEPT !.currentSlot = IF found < 0 THEN USED_SLOTS - 1 ELSE found,
            !.slotDuration = FirstDuration(s.schedule, found, s.wallSecs) * 1000,
            !.changedSlot = TRUE]
Advance(s, next) ==
  [s EXCEPT !.currentSlot = next,
            !.slotDuration = NextDuration(s.schedule, next) * 1000,
            !.changedSlot = TRUE]
SelectSlot(s) ==
  IF s.currentSlot < 0
  THEN FirstSlot(s, FindSlot(s.schedule, USED_SLOTS - 1, s.wallSecs))
  ELSE IF SlotExpired(s.millis, s.startTime, s.slotDuration)
  THEN Advance(s, NextSlot(s.currentSlot))
  ELSE s
\* if (changedSlot): send new target temp to MCU
Activate(s) ==
  IF s.changedSlot
  THEN UpdateAppStatus([s EXCEPT !.changedSlot = FALSE, !.startTime = s.millis,
                                 !.entered = Append(@, <<s.currentSlot, s.slotDuration>>)],
                       Key("tgtTemp"), FmtF1(s.schedule[s.currentSlot][TGT_TEMP] * 10))
  ELSE s

CheckSchedule(s) == IF ~s.timeSynchronized THEN s ELSE Activate(SelectSlot(s))

\* gotHeartbeat = false and what follows it
AckedWork(s) ==
  CheckSchedule(SendLocalTime(SendWifiStatus([s EXCEPT !.gotHeartbeat = FALSE], FALSE),
                              FALSE))
HeartBeatAcked(s) == AckedWork([s EXCEPT !.hbInterval = 15])
HeartBeatSent(s) ==
  IF s.gotHeartbeat THEN HeartBeatAcked(s) ELSE [s EXCEPT !.hbInterval = 1]
\* heartBeat, up to its delay(); updateStats only publishes configuration values
HeartBeat(s) ==
  IF s.USE_SNIFFER THEN s ELSE HeartBeatSent(ProcessTuyaMsg(s, <<"M", " ", "0">>))

----------------------------------------------------------------------------
(* appSpecific.cpp: controlHeating, processDP, processMCUcmd *)

\* smooth(latestVal, smoothedVal, alpha): alpha * latest + (1 - alpha) * smoothed,
\* all in hundredths, rounded to the nearest hundredth
Smooth(latestVal, smoothedVal, a) ==
  IF latestVal * a + smoothedVal * (100 - a) >= 0
  THEN (latestVal * a + smoothedVal * (100 - a) + 50) \div 100
  ELSE -((50 - (latestVal * a + smoothedVal * (100 - a))) \div 100)

\* heating on: switch off if target reached
SwitchOffBad(cur, tgt) == cur >= tgt
SwitchOff(cur, tgt) == cur > tgt
\* heating off: switch on if dropped below target - backlash
SwitchOn(cur, lash, tgt) == cur + lash < tgt
\* (int32_t)((baseCal + drift) * 10) and (int32_t)((baseCal - drift) * 10)
CalOffBad(cal, drft) == TimesTen(cal - drft * 100)
CalOff(cal, drft) == TimesTen(cal + drft * 100)
CalOn(cal, drft) == TimesTen(cal - drft * 100)

EspCal(s, v) ==
  UpdateAppStatus([s EXCEPT !.ctl.espCal = Append(@, v)], Key("espCal"), FmtD(v))

\* heatingOn ? baseCal + drift : baseCal - drift, plus mcuTemp
FloorTemp(s, mcuTemp) ==
  (IF s.heatingOn THEN s.baseCal + s.drift * 100 ELSE s.baseCal - s.drift * 100) + mcuTemp
Actuate(s) ==
  IF s.heatingOn
  THEN (IF SwitchOff(s.currentTemp, s.tgtTemp)
        THEN EspCal(s, CalOff(s.baseCal, s.drift)) ELSE s)
  ELSE (IF SwitchOn(s.currentTemp, s.backLash, s.tgtTemp)
        THEN EspCal(s, CalOn(s.baseCal, s.drift)) ELSE s)
ControlHeating(s, mcuTemp) ==
  Actuate([s EXCEPT !.currentTemp = Smooth(FloorTemp(s, mcuTemp), @, s.alpha),
                    !.ctl.calls = @ + 1])

\* int16_t slotTemp = ((tuyaData[i * 4 + 2] << 8) | tuyaData[i * 4 + 3]) / 10, printed "%hu"
SlotTempText(d, i) == FmtNat(ToInt16(TruncDiv(d[(i * 4) + 2] * 256 + d[(i * 4) + 3], 10)) % Pow2(16))
RECURSIVE SetSchedule(_, _)
SetSchedule(s, i) ==
  IF i >= TIME_SLOTS THEN s
  ELSE SetSchedule(
         WsJsonSend(WsJsonSend(s, <<"slotTime", DigitChars[i + 2]>>,
                               Fmt02(s.mcuTuya.tuyaData[i * 4]) \o <<":">>
                               \o Fmt02(s.mcuTuya.tuyaData[(i * 4) + 1])),
                    <<"slotTemp", DigitChars[i + 2]>>, SlotTempText(s.mcuTuya.tuyaData, i)),
         i + 1)

\* case 3, after rawTemp was published
CurrTemp(s) == WsJsonSend(s, Key("currTemp"), FmtF1(s.currentTemp))
\* case 5, after outputOn was published
HeatingTime(s) ==
  IF ~s.heatingOn /\ s.dpStartTime > 0
  THEN [s EXCEPT !.heatingElapsed = @ + (s.millis - s.dpStartTime), !.dpStartTime = 0]
  ELSE s

\* case 20: the calibration the MCU holds
TempCalReportBad(s, floatTemp) == WsJsonSend(s, Key("tempCal"), FmtF1(floatTemp))
TempCalReport(s, floatTemp) ==
  IF ~s.ESPcontroller THEN WsJsonSend(s, Key("tempCal"), FmtF1(floatTemp)) ELSE s

ProcessDP(s) ==
  LET floatTemp == s.mcuTuya.tuyaInt * 10      \* tuyaInt / 10.0, in hundredths
      d0 == s.mcuTuya.tuyaData[0]
      dp == s.mcuTuya.tuyaDP
      u == FmtNat(d0)
      on == d0 # 0
  IN CASE dp = 1 ->
            IF on THEN SendWifiStatus(SendLocalTime(WsJsonSend(s, Key("switchDisp"), u), TRUE), TRUE)
            ELSE WsJsonSend(s, Key("switchDisp"), u)
       [] dp = 2 -> WsJsonSend([s EXCEPT !.tgtTemp = floatTemp], Key("tgtTemp"), FmtF1(floatTemp))
       [] dp = 3 ->
            CurrTemp(IF s.ESPcontroller
                     THEN ControlHeating(WsJsonSend(s, Key("rawTemp"), FmtF1(floatTemp)), floatTemp)
                     ELSE [WsJsonSend(s, Key("rawTemp"), FmtF1(floatTemp))
                             EXCEPT !.currentTemp = floatTemp])
       [] dp = 4 -> WsJsonSend(s, Key("progMode"), u)
       [] dp = 5 ->
            HeatingTime([WsJsonSend(s, Key("outputOn"), u)
                           EXCEPT !.heatingOn = on,
                                  !.dpStartTime = IF on THEN s.millis ELSE @])
       [] dp = 8 -> WsJsonSend(s, Key("childLock"), u)
       [] dp = 13 -> WsJsonSend(s, Key("soundOn"), u)
       [] dp = 16 -> WsJsonSend(s, Key("fault"), u)
       [] dp = 20 -> TempCalReport(s, floatTemp)
       [] dp = 21 -> WsJsonSend(s, Key("roomMax"), FmtU(s.mcuTuya.tuyaInt))
       [] dp = 25 -> WsJsonSend(s, Key("tempSensor"), u)
       [] dp = 26 -> WsJsonSend(s, Key("frost"), u)
       [] dp = 31 -> IF on THEN ProcessTuyaMsg(s, <<"M", " ", "8">>) ELSE s
       [] dp = 41 -> WsJsonSend(s, Key("backLight"), u)
       [] dp = 42 -> WsJsonSend(s, Key("daySetting"), u)
       [] dp = 43 -> SetSchedule(s, 0)
       [] dp = 101 -> WsJsonSend(s, Key("opReverse"), u)
       [] dp = 105 -> WsJsonSend([s EXCEPT !.backLash = floatTemp], Key("tempLash"), FmtF1(floatTemp))
       [] dp = 107 -> WsJsonSend(s, Key("floorMax"), FmtU(s.mcuTuya.tuyaInt))
       [] OTHER -> s

DoTuyaInitBad(s) ==
  ProcessTuyaMsg(ProcessTuyaMsg(s, <<"M", " ", "8">>),
                 <<"M", " ", "6", " ", "4", " ", "4", " ">>
                 \o (IF s.ESPcontroller THEN <<"0">> ELSE <<"1">>))
DoTuyaInit(s) ==
  ProcessTuyaMsg(ProcessTuyaMsg(s, <<"M", " ", "6", " ", "4", " ", "4", " ">>
                                   \o (IF s.ESPcontroller THEN <<"0">> ELSE <<"1">>)),
                 <<"M", " ", "8">>)

\* cases 1 to 4 (view only, ignored) and default: LOG_ERR("Unhandled command number")
UnhandledBad(s) == [s EXCEPT !.gotHeartbeat = TRUE]
Unhandled(s) == s
DispatchCmd(s) ==
  CASE s.mcuTuya.tuyaCmd = 0 ->
         IF s.mcuTuya.tuyaData[0] = 0 THEN DoTuyaInit([s EXCEPT !.gotHeartbeat = TRUE])
         ELSE [s EXCEPT !.gotHeartbeat = TRUE]
    [] s.mcuTuya.tuyaCmd = 7 -> ProcessDP(s)
    [] s.mcuTuya.tuyaCmd = 28 -> SendLocalTime(s, TRUE)
    [] OTHER -> Unhandled(s)
\* ctl.cmds counts the calls
ProcessMCUcmd(s) == DispatchCmd([s EXCEPT !.ctl.cmds = @ + 1])

----------------------------------------------------------------------------
(* sniffer.cpp: processTuyaByte, readUart *)

\* the header test: the last two buffered bytes are 55 aa and no header was seen
HdrFoundAny(data, idx, have) ==
  idx > 1 /\ data[idx - 2] = HDR0 /\ data[idx - 1] = HDR1
HdrFound(data, idx, have) ==
  idx > 1 /\ ~have /\ data[idx - 2] = HDR0 /\ data[idx - 1] = HDR1

\* the buffered length at which the message is complete
MsgEndBad(len) == Min(len + 6, BUFF_LEN - 10)
MsgEnd(len) == Min(len + 7, BUFF_LEN - 10)

\* formatTuya and processMCUcmd on the complete message, then the reset;
\* delivered records the message handed over
Deliver(s, p) ==
  [(IF s.USE_SNIFFER THEN FormatTuya(s, s.tuyaData[p], s.tuyaIdx[p], TRUE)
    ELSE ProcessMCUcmd(FormatTuya(s, s.tuyaData[p], s.tuyaIdx[p], TRUE)))
     EXCEPT !.delivered = Append(@, [port |-> p, hdr |-> s.haveHdr[p],
                                     bytes |-> [k \in 1..s.tuyaIdx[p] |-> s.tuyaData[p][k - 1]]]),
            !.haveHdr[p] = FALSE, !.tuyaIdx[p] = 0, !.msgLen[p] = BUFF_LEN - 10]
Complete(s, p) == IF s.tuyaIdx[p] = MsgEnd(s.msgLen[p]) THEN Deliver(s, p) ELSE s
\* determine msg length
Measure(s, p) ==
  Complete(IF s.tuyaIdx[p] = 6 /\ s.haveHdr[p]
           THEN [s EXCEPT !.msgLen[p] = s.tuyaData[p][4] * 256 + s.tuyaData[p][5]]
           ELSE s, p)
\* check for header: memmove(tuyaData, tuyaData + tuyaIdx - 2, 2); tuyaIdx = 2
Sync(s, p) ==
  Measure(IF HdrFound(s.tuyaData[p], s.tuyaIdx[p], s.haveHdr[p])
          THEN [s EXCEPT !.haveHdr[p] = TRUE,
                         !.tuyaData[p][0] = s.tuyaData[p][s.tuyaIdx[p] - 2],
                         !.tuyaData[p][1] = s.tuyaData[p][s.tuyaIdx[p] - 1],
                         !.tuyaIdx[p] = 2]
          ELSE s, p)
ProcessTuyaByte(s, p, tuyaByte) ==
  Sync([s EXCEPT !.tuyaData[p][s.tuyaIdx[p]] = tuyaByte, !.tuyaIdx[p] = @ + 1], p)

\* forward to other uart if in sniffer mode
ForwardBad(s, otherUart, tuyaByte) ==
  IF s.USE_SNIFFER
  THEN [s EXCEPT !.out = Append(@, [port |-> 1 - otherUart, bytes |-> <<tuyaByte>>])]
  ELSE s
Forward(s, otherUart, tuyaByte) ==
  IF s.USE_SNIFFER
  THEN [s EXCEPT !.out = Append(@, [port |-> otherUart, bytes |-> <<tuyaByte>>])]
  ELSE s
\* readUart on a UART_DATA event: every byte read on uartNum goes to the decoder
\* of the other port
\* (the state is evaluated before the next byte is read)
RECURSIVE ReadUart(_, _, _)
ReadUart(s, uartNum, bytes) ==
  IF bytes = <<>> \/ s.tuyaIdx[1 - uartNum] < 0 THEN s
  ELSE ReadUart(ProcessTuyaByte(Forward(s, 1 - uartNum, Head(bytes)), 1 - uartNum,
                                Head(bytes)),
                uartNum, Tail(bytes))

----------------------------------------------------------------------------
(* The program state as one record, and its initial value *)

Cur ==
  [tuyaIdx |-> tuyaIdx, haveHdr |-> haveHdr, msgLen |-> msgLen, tuyaData |-> tuyaData,
   mcuTuya |-> mcuTuya, gotHeartbeat |-> gotHeartbeat, heatingElapsed |-> heatingElapsed,
   currentTemp |-> currentTemp, alpha |-> alpha, drift |-> drift,
   ESPcontroller |-> ESPcontroller, tgtTemp |-> tgtTemp, backLash |-> backLash,
   baseCal |-> baseCal, heatingOn |-> heatingOn, schedule |-> schedule,
   slotCnt |-> slotCnt, currentSlot |-> currentSlot, slotDuration |-> slotDuration,
   startTime |-> startTime, changedSlot |-> changedSlot, dpStartTime |-> dpStartTime,
   oldWifiStatus |-> oldWifiStatus, sentTime |-> sentTime, hbInterval |-> hbInterval,
   configLoaded |-> configLoaded, timeSynchronized |-> timeSynchronized,
   wifiConnected |-> wifiConnected, millis |-> millis, wallSecs |-> wallSecs,
   USE_SNIFFER |-> USE_SNIFFER, out |-> out, ui |-> ui, delivered |-> delivered,
   ctl |-> ctl, entered |-> entered]

NoCtl == [calls |-> 0, espCal |-> <<>>, cmds |-> 0]

\* the state a handler starts from: nothing written, published or delivered yet
Begin == [Cur EXCEPT !.out = <<>>, !.ui = <<>>, !.delivered = <<>>, !.ctl = NoCtl]

Commit(s) ==
  /\ tuyaIdx' = s.tuyaIdx /\ haveHdr' = s.haveHdr /\ msgLen' = s.msgLen
  /\ tuyaData' = s.tuyaData /\ mcuTuya' = s.mcuTuya /\ gotHeartbeat' = s.gotHeartbeat
  /\ heatingElapsed' = s.heatingElapsed /\ currentTemp' = s.currentTemp
  /\ alpha' = s.alpha /\ drift' = s.drift /\ ESPcontroller' = s.ESPcontroller
  /\ tgtTemp' = s.tgtTemp /\ backLash' = s.backLash /\ baseCal' = s.baseCal
  /\ heatingOn' = s.heatingOn /\ schedule' = s.schedule /\ slotCnt' = s.slotCnt
  /\ currentSlot' = s.currentSlot /\ slotDuration' = s.slotDuration
  /\ startTime' = s.startTime /\ changedSlot' = s.changedSlot
  /\ dpStartTime' = s.dpStartTime /\ oldWifiStatus' = s.oldWifiStatus
  /\ sentTime' = s.sentTime /\ hbInterval' = s.hbInterval
  /\ configLoaded' = s.configLoaded /\ timeSynchronized' = s.timeSynchronized
  /\ wifiConnected' = s.wifiConnected /\ millis' = s.millis /\ wallSecs' = s.wallSecs
  /\ out' = s.out /\ ui' = s.ui /\ delivered' = s.delivered /\ ctl' = s.ctl
  /\ USE_SNIFFER' = s.USE_SNIFFER /\ entered' = s.entered

ZeroBuf == [i \in 0..(BUFF_LEN - 1) |-> 0]
ZeroSchedule == [i \in 0..(TIME_SLOTS - 1) |-> [c \in 0..5 |-> 0]]

\* the heartbeat task is about to send its first heartbeat; the MCU is not up yet
\* pc: the line heartBeat is at; owed: replies the MCU has still to send;
\* seen: a reply was received; after: this tick began after a reply was
\* received; missed: this tick logged a missed heartbeat; n: ticks begun
HbCold == [pc |-> "send", awake |-> FALSE, owed |-> 0, seen |-> FALSE,
           after |-> FALSE, missed |-> FALSE, n |-> 0]
\* heating has not been on
NoSession == [since |-> -1, total |-> 0]
\* mcuTask and wifiTask wait in xQueueReceive, the heartbeat task and the web
\* server's callback are between two calls; ev is the uart event received,
\* bytes what is still to be read, pend the processTuyaMsg calls still to be made
NoWrite == [port |-> -1, bytes |-> <<>>, by |-> "none", locked |-> FALSE]
\* no call of updateAppStatus in progress; in a call: the name asked for, the
\* locals formatted and msgReady, the message first formatted, and whether
\* formatted now holds the schedule
NoCall == [pc |-> "idle", name |-> "", formatted |-> <<>>, msgReady |-> FALSE,
           asked |-> <<>>, sched |-> FALSE]
Tasks == {"mcu", "wifi", "hb", "ui"}
Readers == {"mcu", "wifi"}
AtRest(t) == [pc |-> IF t \in Readers THEN "wait" ELSE "idle", ev |-> "none",
              bytes |-> <<>>, pend |-> <<>>]

InitProg ==
  /\ tuyaIdx = [p \in 0..1 |-> 0]
  /\ haveHdr = [p \in 0..1 |-> FALSE]
  /\ msgLen = [p \in 0..1 |-> BUFF_LEN - 10]
  /\ tuyaData = [p \in 0..1 |-> ZeroBuf]
  /\ mcuTuya = [tuyaCmd |-> 0, tuyaDP |-> 0, tuyaInt |-> 0, tuyaData |-> ZeroBuf]
  /\ gotHeartbeat = FALSE
  /\ heatingElapsed = 0
  /\ currentTemp = 1500
  /\ alpha = 100
  /\ drift = 3
  /\ ESPcontroller = FALSE
  /\ tgtTemp = 1900
  /\ backLash = 0
  /\ baseCal = 0
  /\ heatingOn = FALSE
  /\ slotCnt = 0
  /\ currentSlot = -1
  /\ slotDuration = 0
  /\ startTime = 0
  /\ changedSlot = FALSE
  /\ dpStartTime = 0
  /\ oldWifiStatus = -1
  /\ sentTime = FALSE
  /\ hbInterval = 1
  /\ configLoaded = FALSE
  /\ timeSynchronized = FALSE
  /\ wifiConnected = FALSE
  /\ millis = 0
  /\ wallSecs = 0
  /\ out = <<>> /\ ui = <<>> /\ delivered = <<>> /\ ctl = NoCtl /\ entered = <<>>
  /\ rx = <<>> /\ sentFrame = <<>> /\ nFed = 0 /\ nDelivered = 0 /\ junk = <<>>
  /\ op = <<"boot">> /\ nOps = 0 /\ nTicks = 0
  /\ hbTask = HbCold /\ session = NoSession
  /\ readMutex = "free" /\ writeMutex = "free"
  /\ task = [t \in Tasks |-> AtRest(t)]
  /\ wire = NoWrite
  /\ update = [t \in Tasks |-> NoCall] /\ flushed = 0

LineIdle == UNCHANGED <<rx, sentFrame, nFed, nDelivered, junk>>
EnvIdle == UNCHANGED <<nOps, nTicks>>
SyncIdle == UNCHANGED <<readMutex, writeMutex, task, wire, update, flushed>>
TaskIdle == UNCHANGED <<hbTask, session>> /\ SyncIdle

----------------------------------------------------------------------------
(* Inputs *)

BufLimit == BUFF_LEN - 10

RECURSIVE NumsText(_)
NumsText(nums) == IF nums = <<>> THEN <<>> ELSE SP \o FmtD(Head(nums)) \o NumsText(Tail(nums))
\* a web monitor command: destination character, then numbers separated by spaces
WebMsg(dest, nums) == <<dest>> \o NumsText(nums)
\* a command with n data bytes
LongMsg(n) == WebMsg("M", <<3>> \o [i \in 1..n |-> 1])

Msgs ==
  { WebMsg("M", <<0>>), WebMsg("W", <<0>>), WebMsg("W", <<0, 1>>), WebMsg("M", <<3, 4>>),
    WebMsg("W", <<3, 85, 170>>), WebMsg("M", <<3, 0, 85, 170, 0, 1, 7>>),
    WebMsg("M", <<6, 2, 2, 190>>), WebMsg("W", <<7, 3, 2, 184>>),
    WebMsg("W", <<7, 5, 1, 1>>), WebMsg("M", <<6, 20, 2, -30>>),
    WebMsg("M", <<6, 43, 0, 6, 0, 0, 215>>), WebMsg("W", <<28>>), WebMsg("M", <<300>>),
    WebMsg("X", <<1>>), LongMsg(BufLimit - 7), LongMsg(BufLimit - 6) }

Run(b, n) == [i \in 1..n |-> b]
\* line noise ahead of a frame
JunkSeqs ==
  { Run(b, n) : b \in {0, 170}, n \in {1, 2, 3, BufLimit - 2, BufLimit - 1, BufLimit, BufLimit + 1} }
  \cup { <<85>>, <<0, 85>>, <<85, 85>>, <<170, 85>>, <<85, 170>>, <<0, 85, 170, 1>> }

\* a frame as the MCU sends it: version 3, payload, checksum
RECURSIVE SeqSum(_)
SeqSum(q) == IF q = <<>> THEN 0 ELSE Head(q) + SeqSum(Tail(q))
McuFrame(cmd, payload) ==
  LET body == <<85, 170, 3, cmd, Len(payload) \div 256, Len(payload) % 256>> \o payload
  IN Append(body, SeqSum(body) % 256)
\* datapoint reports: 4 byte integer, and 1 byte bool / enum
U32Bytes(v) == <<(v \div Pow2(24)) % 256, (v \div Pow2(16)) % 256, (v \div 256) % 256, v % 256>>
McuInt(dp, v) == McuFrame(7, <<dp, 2, 0, 4>> \o U32Bytes(v))
McuBool(dp, v) == McuFrame(7, <<dp, 1, 0, 1, v>>)

----------------------------------------------------------------------------
(* Specification of the codec: a command is written and echoed back, behind *)
(* optional line noise, and the reader task decodes the line byte by byte.  *)

\* the thermostat build
Init == InitProg /\ schedule = ZeroSchedule /\ USE_SNIFFER = FALSE

LineNoise(j) ==
  /\ nFed = 0 /\ junk = <<>> /\ sentFrame = <<>> /\ rx = <<>>
  /\ rx' = j /\ junk' = j
  /\ op' = <<"noise">>
  /\ Commit(Begin)
  /\ UNCHANGED <<sentFrame, nFed, nDelivered>> /\ EnvIdle /\ TaskIdle

\* the written frame is echoed onto the line the reader task listens on
Echo(s) ==
  /\ Commit(s)
  /\ sentFrame' = (IF s.out = <<>> THEN <<>> ELSE s.out[1].bytes)
  /\ rx' = rx \o (IF s.out = <<>> THEN <<>> ELSE s.out[1].bytes)
SendMsg(m) ==
  /\ nFed = 0 /\ sentFrame = <<>>
  /\ Echo(ProcessTuyaMsg(Begin, m))
  /\ op' = <<"send", m>>
  /\ UNCHANGED <<nFed, nDelivered, junk>> /\ EnvIdle /\ TaskIdle

Decoded(s) == Commit(s) /\ nDelivered' = nDelivered + Len(s.delivered)
ReadByte ==
  /\ rx # <<>>
  /\ Decoded(ReadUart(Begin, 0, <<Head(rx)>>))
  /\ rx' = Tail(rx)
  /\ nFed' = nFed + 1
  /\ op' = <<"read", Head(rx)>>
  /\ UNCHANGED <<sentFrame, junk>> /\ EnvIdle /\ TaskIdle

Next ==
  \/ \E j \in JunkSeqs : LineNoise(j)
  \/ \E m \in Msgs : SendMsg(m)
  \/ ReadByte

Spec == Init /\ [][Next]_vars

----------------------------------------------------------------------------
(* Specification of the controller: the configuration is loaded, the web UI *)
(* sends updates and commands, and the MCU sends whole frames.               *)

MaxOps == 4

Chars2(a, b) == <<a, b>>
\* a schedule is 8 slots of <<hour, minute, temperature in tenths>>
SchedS3 ==
  <<<<6, 0, 200>>, <<8, 30, 150>>, <<9, 0, 150>>, <<12, 30, 215>>, <<16, 30, 180>>,
    <<22, 0, 150>>, <<8, 0, 200>>, <<23, 0, 150>>>>
\* the same work day with other rest day slots
SchedS3Rest == [SchedS3 EXCEPT ![7] = <<0, 0, 220>>, ![8] = <<12, 0, 100>>]
\* slots that share a time, the first at midnight
SchedTies ==
  <<<<0, 0, 200>>, <<0, 0, 150>>, <<9, 0, 155>>, <<9, 0, 210>>, <<23, 59, 180>>,
    <<23, 59, 150>>, <<8, 0, 200>>, <<23, 0, 150>>>>
\* slots that are not in order of time
SchedMixed ==
  <<<<6, 0, 200>>, <<22, 0, 150>>, <<9, 0, 150>>, <<12, 30, 215>>, <<8, 30, 180>>,
    <<16, 30, 150>>, <<8, 0, 200>>, <<23, 0, 150>>>>
Schedules == {SchedS3, SchedS3Rest, SchedTies, SchedMixed}

\* the 16 slot values of a stored schedule, each applied by updateAppStatus
RECURSIVE SlotEdits(_, _, _)
SlotEdits(s, sch, i) ==
  IF i > TIME_SLOTS THEN s
  ELSE SlotEdits(
         UpdateAppStatus(
           UpdateAppStatus(s, Chars2("slotTime", DigitChars[i + 1]),
                           Fmt02(sch[i][1]) \o <<":">> \o Fmt02(sch[i][2])),
           Chars2("slotTemp", DigitChars[i + 1]), FmtF1(sch[i][3] * 10)),
         sch, i + 1)

\* the stored configuration is applied before configLoaded is set
LoadSchedule(sch) ==
  /\ ~configLoaded
  /\ Commit([SlotEdits(Begin, sch, 1) EXCEPT !.configLoaded = TRUE])
  /\ op' = <<"load">>
  /\ LineIdle /\ EnvIdle /\ TaskIdle

UiInputs ==
  { <<"tgtTemp", <<"1", "9">>>>, <<"setCtrl", <<"1">>>>,
    <<"tempCal", <<"-", "1", ".", "2", "5">>>>, <<"tempCal", <<"2">>>>, <<"alpha", <<"0", ".", "5">>>>,
    <<"drift", <<"2">>>> }
\* an update from the web UI
UiUpdate(kv) ==
  /\ nOps < MaxOps
  /\ Commit(UpdateAppStatus(Begin, Key(kv[1]), kv[2]))
  /\ op' = <<"ui", kv[1], kv[2]>>
  /\ nOps' = nOps + 1
  /\ UNCHANGED nTicks /\ LineIdle /\ TaskIdle

CtrlMsgs == { WebMsg("W", <<7, 3, 2, 184>>), WebMsg("M", <<3, 4>>), WebMsg("X", <<1>>) }
\* wsAppSpecificHandler, default case: a tuya command typed into the web monitor
WebCmd(m) ==
  /\ nOps < MaxOps
  /\ Commit(ProcessTuyaMsg(Begin, m))
  /\ op' = <<"web", m>>
  /\ nOps' = nOps + 1
  /\ UNCHANGED nTicks /\ LineIdle /\ TaskIdle

HeartbeatReply == McuFrame(0, <<1>>)
Reports ==
  { McuInt(3, 160), McuInt(3, 184), McuInt(3, 220), McuBool(5, 1), McuBool(5, 0),
    McuInt(105, 5), McuInt(20, 15), McuFrame(0, <<0>>), HeartbeatReply,
    McuFrame(5, <<0>>), McuInt(99, 15) }
\* readUart(0) on a data event that holds one whole frame of the MCU
McuReport(f) ==
  /\ nOps < MaxOps
  /\ Commit(ReadUart(Begin, 0, f))
  /\ op' = <<"mcu", f>>
  /\ nOps' = nOps + 1
  /\ UNCHANGED nTicks /\ LineIdle /\ TaskIdle

NextCtrl ==
  \/ LoadSchedule(SchedS3)
  \/ \E kv \in UiInputs : UiUpdate(kv)
  \/ \E m \in CtrlMsgs : WebCmd(m)
  \/ \E f \in Reports : McuReport(f)

SpecCtrl == Init /\ [][NextCtrl]_vars

----------------------------------------------------------------------------
(* Specification of the schedule driver: the heartbeat task runs, the MCU   *)
(* acknowledges heartbeats, and time passes.                                 *)

MaxTicks == 4

Clocks == {0, 21599, 21600, 40000, 82800, 86399}
\* the wall clock is synchronised; it shows t seconds of the day
SyncTime(t) ==
  /\ ~timeSynchronized
  /\ Commit([Begin EXCEPT !.timeSynchronized = TRUE, !.wallSecs = t])
  /\ op' = <<"sync", t>>
  /\ LineIdle /\ EnvIdle /\ TaskIdle

Elapse(s, ms) ==
  [s EXCEPT !.millis = @ + ms,
            !.wallSecs = IF s.timeSynchronized THEN (@ + (ms \div 1000)) % SECS_IN_DAY ELSE @]
\* milliseconds until the current slot's duration has elapsed
SlotLeft == slotDuration - (millis - startTime)
\* time passes while heartbeats are sent and not acknowledged
Tick(d) ==
  /\ nTicks < MaxTicks /\ ~gotHeartbeat /\ d > 0
  /\ Commit(Elapse(Begin, d))
  /\ op' = <<"tick", d>>
  /\ nTicks' = nTicks + 1
  /\ UNCHANGED nOps /\ LineIdle /\ TaskIdle

\* heartBeat and its delay(hbInterval * 1000)
Sleep(s) == IF s.USE_SNIFFER THEN s ELSE Elapse(s, s.hbInterval * 1000)
HeartBeatTick ==
  /\ nTicks < MaxTicks
  /\ Commit(Sleep(HeartBeat(Begin)))
  /\ op' = <<"beat">>
  /\ nTicks' = nTicks + 1
  /\ UNCHANGED nOps /\ LineIdle /\ TaskIdle

NextSched ==
  \/ \E sch \in Schedules : LoadSchedule(sch)
  \/ \E t \in Clocks : SyncTime(t)
  \/ (~gotHeartbeat /\ McuReport(HeartbeatReply))
  \/ \E d \in {15000, SlotLeft, SlotLeft + 1000} : Tick(d)
  \/ HeartBeatTick

SpecSched == Init /\ [][NextSched]_vars

----------------------------------------------------------------------------
(* Specification of a schedule cycle: the MCU acknowledges every heartbeat   *)
(* and the heartbeat task runs once each slot is over.                       *)

MaxCycle == 7

\* every slot at the same time of day
SchedSame == [i \in 1..TIME_SLOTS |-> <<9, 0, 200>>]

\* readUart(0): the MCU's reply to the last heartbeat
CycleAck ==
  /\ ~gotHeartbeat /\ nOps < MaxCycle
  /\ Commit(ReadUart(Begin, 0, HeartbeatReply))
  /\ op' = <<"mcu", HeartbeatReply>>
  /\ nOps' = nOps + 1
  /\ UNCHANGED nTicks /\ LineIdle /\ TaskIdle
\* time passes until the current slot is over
CycleWait(d) ==
  /\ currentSlot >= 0 /\ SlotLeft >= 0 /\ nTicks < MaxCycle
  /\ Commit(Elapse(Begin, d))
  /\ op' = <<"tick", d>>
  /\ LineIdle /\ EnvIdle /\ TaskIdle
\* heartBeat, once the MCU has acknowledged and the slot is over
CycleBeat ==
  /\ gotHeartbeat /\ (currentSlot < 0 \/ SlotLeft < 0) /\ nTicks < MaxCycle
  /\ Commit(Sleep(HeartBeat(Begin)))
  /\ op' = <<"beat">>
  /\ nTicks' = nTicks + 1
  /\ UNCHANGED nOps /\ LineIdle /\ TaskIdle

NextCycle ==
  \/ \E sch \in Schedules \cup {SchedSame} : (currentSlot < 0 /\ LoadSchedule(sch))
  \/ \E t \in Clocks : SyncTime(t)
  \/ CycleAck
  \/ \E d \in {SlotLeft + 1, SlotLeft + 15000} : CycleWait(d)
  \/ CycleBeat

SpecCycle == Init /\ [][NextCycle]_vars

----------------------------------------------------------------------------
(* Specification of the schedule editor: slot values arrive one at a time,  *)
(* before and after the configuration is marked as loaded.                   *)

MaxEdits == 33

\* <<key, slot digit, value>>; slot 9 is not a slot of the schedule
SlotInputs ==
  { <<"slotTime", "1", <<"0", "6", ":", "0", "0">>>>, <<"slotTemp", "1", <<"2", "1", ".", "5">>>>,
    <<"slotTime", "8", <<"2", "3", ":", "0", "5">>>>, <<"slotTemp", "8", <<"1", "5">>>>,
    <<"slotTemp", "9", <<"3", "0">>>>, <<"tgtTemp", NUL, <<"1", "9">>>> }
SlotEdit(e) ==
  /\ nOps < MaxEdits
  /\ Commit(UpdateAppStatus(Begin, Chars2(e[1], e[2]), e[3]))
  /\ op' = <<"edit", e[1], e[2], e[3]>>
  /\ nOps' = nOps + 1
  /\ UNCHANGED nTicks /\ LineIdle /\ TaskIdle
\* the stored configuration has been read
SetLoaded ==
  /\ ~configLoaded
  /\ Commit([Begin EXCEPT !.configLoaded = TRUE])
  /\ op' = <<"loaded">>
  /\ LineIdle /\ EnvIdle /\ TaskIdle

NextSlots ==
  \/ \E e \in SlotInputs : SlotEdit(e)
  \/ SetLoaded

SpecSlots == Init /\ [][NextSlots]_vars

----------------------------------------------------------------------------
(* Specification of the heartbeat task and the reader task running side by  *)
(* side: heartBeat reads and clears gotHeartbeat line by line, and the       *)
(* reader task sets it whenever a reply of the MCU has come in.  Once up,   *)
(* the MCU replies to every heartbeat before the next one is sent.           *)

MaxBeats == 4

\* the MCU has started and answers from now on
McuWake ==
  /\ ~hbTask.awake
  /\ hbTask' = [hbTask EXCEPT !.awake = TRUE]
  /\ Commit(Begin)
  /\ op' = <<"wake">>
  /\ UNCHANGED session /\ LineIdle /\ EnvIdle /\ SyncIdle
\* processTuyaMsg("M 0")
BeatSend ==
  /\ hbTask.pc = "send" /\ hbTask.owed = 0 /\ hbTask.n < MaxBeats
  /\ Commit(ProcessTuyaMsg(Begin, <<"M", " ", "0">>))
  /\ hbTask' = [hbTask EXCEPT !.pc = "read", !.owed = IF hbTask.awake THEN 1 ELSE 0,
                               !.after = hbTask.seen, !.missed = FALSE, !.n = @ + 1]
  /\ op' = <<"beat", "send">>
  /\ UNCHANGED session /\ LineIdle /\ EnvIdle /\ SyncIdle
\* int hbInterval = gotHeartbeat ? 15 : 1
BeatRead ==
  /\ hbTask.pc = "read"
  /\ Commit([Begin EXCEPT !.hbInterval = IF gotHeartbeat THEN 15 ELSE 1])
  /\ hbTask' = [hbTask EXCEPT !.pc = "test"]
  /\ op' = <<"beat", "read">>
  /\ UNCHANGED session /\ LineIdle /\ EnvIdle /\ SyncIdle
\* if (gotHeartbeat) ... else LOG_WRN("Missed heartbeat")
BeatTest ==
  /\ hbTask.pc = "test"
  /\ Commit(Begin)
  /\ hbTask' = [hbTask EXCEPT !.pc = IF gotHeartbeat THEN "clear" ELSE "sleep",
                               !.missed = ~gotHeartbeat]
  /\ op' = <<"beat", "test">>
  /\ UNCHANGED session /\ LineIdle /\ EnvIdle /\ SyncIdle
\* gotHeartbeat = false; sendWifiStatus; sendLocalTime; updateStats; checkSchedule
BeatClear ==
  /\ hbTask.pc = "clear"
  /\ Commit(AckedWork(Begin))
  /\ hbTask' = [hbTask EXCEPT !.pc = "sleep"]
  /\ op' = <<"beat", "clear">>
  /\ UNCHANGED session /\ LineIdle /\ EnvIdle /\ SyncIdle
\* delay(hbInterval * 1000)
BeatSleep ==
  /\ hbTask.pc = "sleep"
  /\ Commit(Elapse(Begin, hbInterval * 1000))
  /\ hbTask' = [hbTask EXCEPT !.pc = "send"]
  /\ op' = <<"beat", "sleep">>
  /\ UNCHANGED session /\ LineIdle /\ EnvIdle /\ SyncIdle
\* readUart(0) in the reader task: the reply owed, 0 in the first and 1 in the others
BeatReply ==
  /\ hbTask.owed > 0
  /\ Commit(ReadUart(Begin, 0, McuFrame(0, <<IF hbTask.seen THEN 1 ELSE 0>>)))
  /\ hbTask' = [hbTask EXCEPT !.owed = 0, !.seen = TRUE]
  /\ op' = <<"mcu", "reply">>
  /\ UNCHANGED session /\ LineIdle /\ EnvIdle /\ SyncIdle

NextBeat ==
  \/ McuWake \/ BeatSend \/ BeatRead \/ BeatTest \/ BeatClear \/ BeatSleep \/ BeatReply

SpecBeat == Init /\ [][NextBeat]_vars

----------------------------------------------------------------------------
(* Specification of the sniffer build: USE_SNIFFER is set, both ports are   *)
(* read, and the web UI, the web monitor and the heartbeat task run as in   *)
(* the thermostat build.                                                     *)

InitSniffer == InitProg /\ schedule = ZeroSchedule /\ USE_SNIFFER = TRUE

\* what arrives on a port in one data event: whole frames and pieces of one
Chunks ==
  { McuInt(3, 184), McuBool(5, 1), McuFrame(0, <<0>>), <<85, 170, 3, 7>>, <<0, 5, 5, 1>> }
\* readUart(1) in wifiTask on a data event
WifiReport(f) ==
  /\ nOps < MaxOps
  /\ Commit(ReadUart(Begin, 1, f))
  /\ op' = <<"wifi", f>>
  /\ nOps' = nOps + 1
  /\ UNCHANGED nTicks /\ LineIdle /\ TaskIdle

NextSniffer ==
  \/ \E kv \in UiInputs : UiUpdate(kv)
  \/ \E m \in CtrlMsgs : WebCmd(m)
  \/ \E f \in Chunks : McuReport(f)
  \/ \E f \in Chunks : WifiReport(f)
  \/ HeartBeatTick

SpecSniffer == InitSniffer /\ [][NextSniffer]_vars

----------------------------------------------------------------------------
(* Specification of the heating time: the MCU reports datapoint 5 whenever  *)
(* the relay switches and again whenever its datapoints are queried, and     *)
(* time passes in between.  session follows the time heating is really on:  *)
(* since is the time of the report that turned it on (-1 while off), total   *)
(* the length of the sessions that are over.                                 *)

MaxHeat == 6

\* readUart(0) with a datapoint 5 report; the reader task runs after setup
HeatReport(v) ==
  /\ nOps < MaxHeat /\ millis > 0
  /\ Commit(ReadUart(Begin, 0, McuBool(5, v)))
  /\ session' = IF v = 1 /\ session.since < 0 THEN [session EXCEPT !.since = millis]
                ELSE IF v = 0 /\ session.since >= 0
                     THEN [since |-> -1, total |-> session.total + (millis - session.since)]
                     ELSE session
  /\ op' = <<"mcu", McuBool(5, v)>>
  /\ nOps' = nOps + 1
  /\ UNCHANGED <<nTicks, hbTask>> /\ LineIdle /\ SyncIdle
\* millis() moves on
HeatWait(d) ==
  /\ nOps < MaxHeat
  /\ Commit(Elapse(Begin, d))
  /\ op' = <<"wait", d>>
  /\ nOps' = nOps + 1
  /\ UNCHANGED nTicks /\ LineIdle /\ TaskIdle

NextHeat ==
  \/ \E v \in {0, 1} : HeatReport(v)
  \/ \E d \in {1000, 15000} : HeatWait(d)

SpecHeat == Init /\ [][NextHeat]_vars

----------------------------------------------------------------------------
(* Specification of the tasks and the two mutexes: mcuTask and (in the      *)
(* sniffer build) wifiTask run readUart, the heartbeat task runs heartBeat, *)
(* and the web server's task hands UI updates to updateAppStatus and web    *)
(* monitor commands to processTuyaMsg.  A task takes one step at a time: a  *)
(* handler computes up to its next processTuyaMsg call, and each call takes *)
(* writeMutex, writes and gives it back in steps of its own.  The clock     *)
(* stands still, so that the tasks can run for ever in a finite state space. *)

\* the processTuyaMsg calls a handler makes, as the frames they write
Calls(frames) ==
  [i \in 1..Len(frames) |-> [valid |-> TRUE, port |-> frames[i].port, bytes |-> frames[i].bytes]]
\* a call from the web monitor: a message with an invalid destination writes nothing
DirectCall(frames) ==
  IF frames = <<>> THEN <<[valid |-> FALSE, port |-> -1, bytes |-> <<>>]>> ELSE Calls(frames)
\* where a task goes on once its calls are made
Resume(t) == IF t \in Readers THEN "read" ELSE IF t = "hb" THEN "sleep" ELSE "idle"
Port(t) == IF t = "mcu" THEN 0 ELSE 1

\* what a data event holds
Events == { McuFrame(0, <<0>>) }
\* xQueueReceive returns: UART_DATA with bytes to read, or another event type
RdEvent(t, ev, bytes) ==
  /\ task[t].pc = "wait" /\ (t = "wifi" => USE_SNIFFER)
  /\ task' = [task EXCEPT ![t] = [@ EXCEPT !.pc = "take", !.ev = ev, !.bytes = bytes]]
  /\ Commit(Begin)
  /\ op' = <<"step">>
  /\ UNCHANGED <<readMutex, writeMutex, wire, hbTask, session, update, flushed>> /\ LineIdle /\ EnvIdle
\* xSemaphoreTake(readMutex, portMAX_DELAY)
RdTakeBad(t) ==
  /\ task[t].pc = "take"
  /\ readMutex' = t
  /\ task' = [task EXCEPT ![t].pc = IF task[t].ev = "data" THEN "read" ELSE "flush"]
  /\ Commit(Begin)
  /\ op' = <<"step">>
  /\ UNCHANGED <<writeMutex, wire, hbTask, session, update, flushed>> /\ LineIdle /\ EnvIdle
RdTake(t) ==
  /\ task[t].pc = "take" /\ readMutex = "free"
  /\ readMutex' = t
  /\ task' = [task EXCEPT ![t].pc = IF task[t].ev = "data" THEN "read" ELSE "flush"]
  /\ Commit(Begin)
  /\ op' = <<"step">>
  /\ UNCHANGED <<writeMutex, wire, hbTask, session, update, flushed>> /\ LineIdle /\ EnvIdle
\* xQueueReset, uart_flush_input: what was received is dropped
RdFlush(t) ==
  /\ task[t].pc = "flush"
  /\ task' = [task EXCEPT ![t] = [@ EXCEPT !.pc = "give", !.bytes = <<>>]]
  /\ Commit(Begin)
  /\ op' = <<"step">>
  /\ UNCHANGED <<readMutex, writeMutex, wire, hbTask, session, update, flushed>> /\ LineIdle /\ EnvIdle
\* one turn of the while loop: a byte is read, forwarded in the sniffer build
\* and given to processTuyaByte, up to the first processTuyaMsg of the dispatcher
RdByteDone(t, s) ==
  /\ Commit(s)
  /\ task' = [task EXCEPT ![t] = [@ EXCEPT !.pc = IF s.out = <<>> THEN "read" ELSE "wtake",
                                           !.bytes = Tail(@), !.pend = Calls(s.out)]]
RdByte(t) ==
  /\ task[t].pc = "read" /\ task[t].bytes # <<>>
  /\ RdByteDone(t, ProcessTuyaByte(Begin, 1 - Port(t), Head(task[t].bytes)))
  /\ wire' = IF USE_SNIFFER
             THEN [port |-> 1 - Port(t), bytes |-> <<Head(task[t].bytes)>>,
                   by |-> t, locked |-> (writeMutex = t)]
             ELSE wire
  /\ op' = <<"step">>
  /\ UNCHANGED <<readMutex, writeMutex, hbTask, session, update, flushed>> /\ LineIdle /\ EnvIdle
\* uart_read_bytes returns 0; xSemaphoreGive(readMutex)
RdGive(t) ==
  /\ task[t].pc = "give" \/ (task[t].pc = "read" /\ task[t].bytes = <<>>)
  /\ readMutex' = IF readMutex = t THEN "free" ELSE readMutex
  /\ task' = [task EXCEPT ![t] = AtRest(t)]
  /\ Commit(Begin)
  /\ op' = <<"step">>
  /\ UNCHANGED <<writeMutex, wire, hbTask, session, update, flushed>> /\ LineIdle /\ EnvIdle

\* processTuyaMsg: xSemaphoreTake(writeMutex, portMAX_DELAY)
WrTake(t) ==
  /\ task[t].pc = "wtake" /\ writeMutex = "free"
  /\ writeMutex' = t
  /\ task' = [task EXCEPT ![t].pc = "write"]
  /\ Commit(Begin)
  /\ op' = <<"step">>
  /\ UNCHANGED <<readMutex, wire, hbTask, session, update, flushed>> /\ LineIdle /\ EnvIdle
\* processTuyaMsg: the destination test, and uart_write_bytes of the frame
WrWrite(t) ==
  /\ task[t].pc = "write"
  /\ wire' = IF Head(task[t].pend).valid
             THEN [port |-> Head(task[t].pend).port, bytes |-> Head(task[t].pend).bytes,
                   by |-> t, locked |-> (writeMutex = t)]
             ELSE wire
  /\ task' = [task EXCEPT ![t].pc = "wgive"]
  /\ Commit(Begin)
  /\ op' = <<"step">>
  /\ UNCHANGED <<readMutex, writeMutex, hbTask, session, update, flushed>> /\ LineIdle /\ EnvIdle
\* processTuyaMsg: xSemaphoreGive(writeMutex), and on to the caller's next call
WrGiveBad(t) ==
  /\ task[t].pc = "wgive"
  /\ writeMutex' = IF writeMutex = t /\ Head(task[t].pend).valid THEN "free" ELSE writeMutex
  /\ task' = [task EXCEPT ![t] = [@ EXCEPT !.pend = Tail(@),
                                           !.pc = IF Len(task[t].pend) > 1 THEN "wtake"
                                                  ELSE Resume(t)]]
  /\ Commit(Begin)
  /\ op' = <<"step">>
  /\ UNCHANGED <<readMutex, wire, hbTask, session, update, flushed>> /\ LineIdle /\ EnvIdle
WrGive(t) ==
  /\ task[t].pc = "wgive"
  /\ writeMutex' = IF writeMutex = t THEN "free" ELSE writeMutex
  /\ task' = [task EXCEPT ![t] = [@ EXCEPT !.pend = Tail(@),
                                           !.pc = IF Len(task[t].pend) > 1 THEN "wtake"
                                                  ELSE Resume(t)]]
  /\ Commit(Begin)
  /\ op' = <<"step">>
  /\ UNCHANGED <<readMutex, wire, hbTask, session, update, flushed>> /\ LineIdle /\ EnvIdle

\* a handler of the heartbeat task or of the web server's task has run
Called(t, s, calls) ==
  /\ Commit(s)
  /\ task' = [task EXCEPT ![t] = [@ EXCEPT !.pc = IF calls = <<>> THEN Resume(t) ELSE "wtake",
                                           !.pend = calls]]
  /\ UNCHANGED <<readMutex, writeMutex, wire, hbTask, session, update, flushed>> /\ LineIdle /\ EnvIdle
\* heartBeat
HbCallBad ==
  /\ task["hb"].pc = "idle"
  /\ Called("hb", HeartBeat(Begin),
            IF gotHeartbeat \/ USE_SNIFFER THEN Calls(HeartBeat(Begin).out) ELSE Tail(Calls(HeartBeat(Begin).out)))
  /\ op' = <<"hb">>
HbCall ==
  /\ task["hb"].pc = "idle"
  /\ Called("hb", HeartBeat(Begin), Calls(HeartBeat(Begin).out))
  /\ op' = <<"hb">>
\* delay(hbInterval * 1000) is over
HbWake ==
  /\ task["hb"].pc = "sleep"
  /\ task' = [task EXCEPT !["hb"].pc = "idle"]
  /\ Commit(Begin)
  /\ op' = <<"step">>
  /\ UNCHANGED <<readMutex, writeMutex, wire, hbTask, session, update, flushed>> /\ LineIdle /\ EnvIdle

\* updates from the UI: <<name, slot number, value>>
Updates ==
  { <<"tgtTemp", <<>>, <<"1", "9">>>>, <<"bogus", <<>>, <<"1">>>>,
    <<"slotTime", <<"9">>, <<"0", "7", ":", "1", "5">>>>, <<"slotTemp", <<"0">>, <<"3", "0">>>>,
    <<"slotTime", <<"1", "0">>, <<"0", "7", ":", "1", "5">>>> }
\* updateAppStatus; variable[8] is the first character of the slot number
UiCalled(u, s) == Called("ui", s, Calls(s.out))
UiCall(u) ==
  /\ task["ui"].pc = "idle"
  /\ UiCalled(u, UpdateAppStatus(Begin, Chars2(u[1], CharAt(u[2], 1)), u[3]))
  /\ op' = <<"ui", u[1], u[2], u[3]>>
\* wsAppSpecificHandler, default case: processTuyaMsg(wsMsg)
WebCall(m) ==
  /\ task["ui"].pc = "idle"
  /\ Called("ui", Begin, DirectCall(ProcessTuyaMsg(Begin, m).out))
  /\ op' = <<"web", m>>

InitTasks == InitProg /\ schedule = ZeroSchedule /\ USE_SNIFFER \in BOOLEAN

NextTasks ==
  \/ \E t \in Readers :
        \/ \E f \in Events : RdEvent(t, "data", f)
        \/ RdEvent(t, "error", <<>>)
        \/ RdTake(t) \/ RdFlush(t) \/ RdByte(t) \/ RdGive(t)
  \/ \E t \in Tasks : WrTake(t) \/ WrWrite(t) \/ WrGive(t)
  \/ HbCall \/ HbWake
  \/ UiCall(<<"tgtTemp", <<>>, <<"1", "9">>>>)
  \/ \E m \in {WebMsg("M", <<0>>), WebMsg("X", <<1>>)} : WebCall(m)
  \/ SetLoaded

SpecTasks == InitTasks /\ [][NextTasks]_vars

\* the scheduler lets every task that can run take its next step, and a task
\* waiting for a mutex gets it in the end if the mutex is free again and again;
\* events, UI updates and web monitor commands come as they please.  The
\* heartbeat task's call of heartBeat is enabled exactly when the task is
\* idle, and a reader's turn of its loop exactly when it has a byte to read,
\* so their weak fairness is written as the state they must leave.
Fairness ==
  /\ \A t \in Tasks : SF_vars(WrTake(t)) /\ WF_vars(WrWrite(t) \/ WrGive(t))
  /\ \A t \in Readers : /\ SF_vars(RdTake(t)) /\ WF_vars(RdFlush(t) \/ RdGive(t))
                        /\ []<>~(task[t].pc = "read" /\ task[t].bytes # <<>>)
  /\ WF_vars(HbWake) /\ []<>(task["hb"].pc # "idle")
SpecFair == SpecTasks /\ Fairness

\* the web server's task alone, with every kind of input
NextInput ==
  \/ \E u \in Updates : UiCall(u)
  \/ \E m \in {WebMsg("M", <<0>>), WebMsg("X", <<1>>), WebMsg("5", <<1>>)} : WebCall(m)
  \/ WrTake("ui") \/ WrWrite("ui") \/ WrGive("ui")
  \/ SetLoaded

SpecInput == Init /\ [][NextInput]_vars

----------------------------------------------------------------------------
(* Specification of updateAppStatus called from several tasks: the web      *)
(* server's task makes slot edits, mcuTask calls it from controlHeating     *)
(* (espCal) and the heartbeat task from checkSchedule (tgtTemp).  slotCnt   *)
(* is a static of the function and no lock is taken, so a call is four      *)
(* steps that other calls may come between: the assignments with the count  *)
(* of the edit, the test of the count, the formatting of the schedule with  *)
(* the reset of the count, and the sending.  processTuyaMsg is one step.    *)

\* the slot edits counted
MaxRace == 16
Callers == {"ui", "mcu", "hb"}
\* what each task asks for: <<name, slot number, value>>
Asks(t) ==
  IF t = "ui" THEN { <<"slotTime", <<"1">>, <<"0", "7", ":", "1", "5">>>>,
                     <<"slotTemp", <<"1">>, <<"2", "1">>>> }
  ELSE IF t = "mcu" THEN { <<"espCal", <<>>, <<"1", "5">>>> }
  ELSE { <<"tgtTemp", <<>>, <<"2", "1">>>> }
\* updateAppStatus up to the test of slotCnt: the sprintf or the assignments of the key
UpAssign(t, u) ==
  /\ update[t].pc = "idle" /\ ~USE_SNIFFER
  /\ t = "ui" => nOps < MaxRace
  /\ Commit(Assigned(Begin, u[1], Byte(Ord(CharAt(u[2], 1)) - 48 - 1), Atoi(u[3]),
                     Atof(u[3]), u[3]))
  /\ update' = [update EXCEPT ![t] =
                  [pc |-> "test", name |-> u[1],
                   formatted |-> Formatted(ESPcontroller, u[1], Atoi(u[3]), Atof(u[3]))[1],
                   msgReady |-> Formatted(ESPcontroller, u[1], Atoi(u[3]), Atof(u[3]))[2],
                   asked |-> Formatted(ESPcontroller, u[1], Atoi(u[3]), Atof(u[3]))[1],
                   sched |-> FALSE]]
  /\ nOps' = IF t = "ui" THEN nOps + 1 ELSE nOps
  /\ op' = <<"assign", t>>
  /\ UNCHANGED <<nTicks, flushed, readMutex, writeMutex, task, wire, hbTask, session>> /\ LineIdle
\* if (slotCnt >= TIME_SLOTS * 2)
UpTest(t) ==
  /\ update[t].pc = "test"
  /\ update' = [update EXCEPT ![t].pc = IF FlushDue(slotCnt) THEN "flush" ELSE "send"]
  /\ Commit(Begin)
  /\ op' = <<"test", t>>
  /\ UNCHANGED <<flushed, readMutex, writeMutex, task, wire, hbTask, session>>
  /\ LineIdle /\ EnvIdle
\* the schedule is formatted over the message, slotCnt = 0, msgReady = true
UpFlush(t) ==
  /\ update[t].pc = "flush"
  /\ update' = [update EXCEPT ![t] = [@ EXCEPT !.pc = "send", !.msgReady = TRUE, !.sched = TRUE,
                                               !.formatted = DpMsg(43, 0, SlotsText(schedule, 0))]]
  /\ Commit([Begin EXCEPT !.slotCnt = 0])
  /\ op' = <<"flush", t>>
  /\ UNCHANGED <<flushed, readMutex, writeMutex, task, wire, hbTask, session>>
  /\ LineIdle /\ EnvIdle
\* if (configLoaded && msgReady) processTuyaMsg(formatted)
UpSend(t) ==
  /\ update[t].pc = "send"
  /\ Commit(IF configLoaded /\ update[t].msgReady
            THEN ProcessTuyaMsg(Begin, update[t].formatted) ELSE Begin)
  /\ flushed' = IF configLoaded /\ update[t].msgReady /\ update[t].sched
                THEN flushed + 1 ELSE flushed
  /\ update' = [update EXCEPT ![t].pc = "idle"]
  /\ op' = <<"send", t>>
  /\ UNCHANGED <<readMutex, writeMutex, task, wire, hbTask, session>> /\ LineIdle /\ EnvIdle

NextRace ==
  \/ \E t \in Callers :
        \/ \E u \in Asks(t) : UpAssign(t, u)
        \/ UpTest(t) \/ UpFlush(t) \/ UpSend(t)
  \/ (nOps = 0 /\ SetLoaded)

SpecRace == Init /\ [][NextRace]_vars

----------------------------------------------------------------------------
(* Properties of the codec, checked under Spec *)

\* the frame the reader task hands over when the written frame is decoded
SentDelivery == <<[port |-> 1, hdr |-> TRUE, bytes |-> sentFrame]>>
Fits(frame) == frame # <<>> /\ Len(frame) <= BUFF_LEN - 10
NoByte(q, b) == \A i \in 1..Len(q) : q[i] # b
NoHeaderIn(q) == \A i \in 1..(Len(q) - 1) : ~(q[i] = 85 /\ q[i + 1] = 170)
\* the byte about to be read completes a 55 aa pair in the buffer of port 1
PairCompletes ==
  /\ nFed' = nFed + 1
  /\ tuyaIdx[1] >= 1
  /\ tuyaData[1][tuyaIdx[1] - 1] = 85
  /\ Head(rx) = 170
Restarted ==
  /\ tuyaIdx'[1] = 2 /\ haveHdr'[1]
  /\ tuyaData'[1][0] = 85 /\ tuyaData'[1][1] = 170
\* the pair is kept as two more bytes of the frame in flight
KeptInFrame ==
  \/ /\ delivered' = <<>> /\ haveHdr'[1]
     /\ tuyaIdx'[1] = tuyaIdx[1] + 1
     /\ tuyaData'[1][tuyaIdx[1]] = 170
     /\ \A k \in 0..(tuyaIdx[1] - 1) : tuyaData'[1][k] = tuyaData[1][k]
  \/ /\ Len(delivered') = 1
     /\ Len(delivered'[1].bytes) = tuyaIdx[1] + 1
     /\ delivered'[1].bytes[tuyaIdx[1] + 1] = 170
     /\ \A k \in 0..(tuyaIdx[1] - 1) : delivered'[1].bytes[k + 1] = tuyaData[1][k]

\* C1: a frame written by processTuyaMsg that is no longer than the decoder's
\* limit BUFF_LEN - 10, fed byte by byte to a port in its reset state, is
\* delivered exactly once, on its last byte and on no earlier byte, and the
\* delivered bytes are the written bytes, 55 and aa in the payload included.
RoundTrip ==
  (Fits(sentFrame) /\ junk = <<>>) =>
    IF rx = <<>>
    THEN nDelivered = 1 /\ delivered = SentDelivery
    ELSE nDelivered = 0 /\ delivered = <<>>
RoundTripWitness ==
  /\ Fits(sentFrame) /\ junk = <<>> /\ rx = <<>> /\ nDelivered = 1
  /\ \E i \in 7..(Len(sentFrame) - 2) : sentFrame[i] = 85 /\ sentFrame[i + 1] = 170

\* C2: the last byte of every frame processTuyaMsg writes is the sum of all
\* the bytes before it, modulo 256.
ChecksumLaw ==
  \A i \in 1..Len(out) :
    /\ Len(out[i].bytes) >= 7
    /\ out[i].bytes[Len(out[i].bytes)]
         = SeqSum(SubSeq(out[i].bytes, 1, Len(out[i].bytes) - 1)) % 256
ChecksumWitness ==
  \E i \in 1..Len(out) :
    /\ SeqSum(SubSeq(out[i].bytes, 1, Len(out[i].bytes) - 1)) >= 512
    /\ out[i].bytes[Len(out[i].bytes)] # 0

\* C4 as stated: after any bytes that hold no 55, a frame that fits is
\* delivered as if it had been fed alone: once, complete, on its last byte.
JunkPrefix ==
  (Fits(sentFrame) /\ junk # <<>> /\ NoByte(junk, 85) /\ rx = <<>>) =>
    delivered = SentDelivery
\* the frame is lost: all of it was read and nothing was delivered on its bytes
\* but the junk and the frame's first byte
JunkPrefixLost ==
  /\ Fits(sentFrame) /\ junk # <<>> /\ NoByte(junk, 85) /\ rx = <<>>
  /\ delivered = <<>> /\ nDelivered = 1 /\ ~haveHdr[1]

\* C5 as stated: every buffer processTuyaByte delivers starts with 55 aa, the
\* header having been seen on that port.
HeaderBeforeDelivery ==
  \A i \in 1..Len(delivered) :
    /\ delivered[i].hdr
    /\ delivered[i].bytes[1] = 85 /\ delivered[i].bytes[2] = 170
\* bytes without a header are dispatched, here as a first heartbeat reply
HeaderlessDelivery ==
  /\ Len(delivered) = 1 /\ ~delivered[1].hdr /\ NoByte(delivered[1].bytes, 85)
  /\ gotHeartbeat /\ Len(out) = 2

\* C6 as stated: whenever the last two bytes buffered are 55 aa, also while a
\* frame whose header was seen is being accumulated, the decoder restarts at
\* offset 2 with the pair at the start of the buffer.
ResyncAlways == [][PairCompletes => Restarted]_vars
\* C6 amended: a 55 aa pair restarts the decoder at offset 2 only while no
\* header has been seen since the port's last reset; once a header has been
\* seen the pair is kept as two bytes of the frame in flight.  A frame behind
\* bytes that hold no 55 aa pair and leave room for the pair in the buffer is
\* delivered once, complete, on its last byte.
ResyncBeforeHeader ==
  /\ []((Fits(sentFrame) /\ junk # <<>> /\ NoHeaderIn(junk)
         /\ Len(junk) <= BUFF_LEN - 12 /\ rx = <<>>)
        => (delivered = SentDelivery /\ nDelivered = 1))
  /\ [][PairCompletes => IF haveHdr[1] THEN KeptInFrame ELSE Restarted]_vars
\* a 55 aa pair in the middle of a frame, buffered behind the frame's header
ResyncWitness ==
  /\ haveHdr[1] /\ tuyaIdx[1] > 6 /\ rx # <<>>
  /\ tuyaData[1][tuyaIdx[1] - 2] = 85 /\ tuyaData[1][tuyaIdx[1] - 1] = 170

----------------------------------------------------------------------------
(* Properties of the controller, checked under SpecCtrl *)

\* the last operation was a datapoint 3 report of the MCU
IsTempReport == op[1] = "mcu" /\ op[2][4] = 7 /\ op[2][7] = 3
\* a frame with the checksum the wire format asks for
WithSum(body) == Append(body, SeqSum(body) % 256)
\* (base_cal + drift) * 10 and (base_cal - drift) * 10 as whole decidegrees
OffValue == TruncDiv((baseCal + (drift * 100)) * 10, 100)
OnValue == TruncDiv((baseCal - (drift * 100)) * 10, 100)

\* C3: the update (tgtTemp, "19") with the configuration loaded writes
\* 55 aa 00 06 00 08 02 02 00 04 00 00 00 be and the checksum to the MCU; in
\* every written frame the 16 bit big endian length is the frame size minus 7,
\* the version is 00 towards the MCU and 03 towards the wifi module, and in
\* frames of command 6 or 7 the inner length is the payload size minus 4.
DatapointEncoding ==
  /\ (op = <<"ui", "tgtTemp", <<"1", "9">>>> /\ configLoaded) =>
       out = <<[port |-> 0,
                bytes |-> WithSum(<<85, 170, 0, 6, 0, 8, 2, 2, 0, 4, 0, 0, 0, 190>>)]>>
  /\ \A i \in 1..Len(out) :
       /\ Len(out[i].bytes) >= 7
       /\ (out[i].bytes[5] * 256) + out[i].bytes[6] = Len(out[i].bytes) - 7
       /\ out[i].bytes[3] = (IF out[i].port = 0 THEN 0 ELSE 3)
       /\ out[i].bytes[4] \in {6, 7} =>
            /\ Len(out[i].bytes) >= 11
            /\ (out[i].bytes[9] * 256) + out[i].bytes[10] = Len(out[i].bytes) - 11
DatapointEncodingWitness ==
  /\ op = <<"ui", "tgtTemp", <<"1", "9">>>> /\ configLoaded
  /\ Len(out) = 1 /\ Len(out[1].bytes) = 15 /\ out[1].bytes[14] = 190

\* C7: on a datapoint 3 report handled while the ESP controls, with the
\* smoothed estimate updated, espCal is issued if and only if heating is on
\* and smoothed > target, or heating is off and smoothed + backlash < target;
\* none is issued with target - backlash <= smoothed <= target; the one issued
\* with heating off is the ON value, with heating on the OFF value.
Hysteresis ==
  (IsTempReport /\ ESPcontroller) =>
    /\ ctl.calls = 1
    /\ (ctl.espCal # <<>>) <=> \/ (heatingOn /\ currentTemp > tgtTemp)
                               \/ (~heatingOn /\ currentTemp + backLash < tgtTemp)
    /\ (tgtTemp - backLash <= currentTemp /\ currentTemp <= tgtTemp) => ctl.espCal = <<>>
    /\ (ctl.espCal # <<>> /\ ~heatingOn) => ctl.espCal = <<OnValue>>
    /\ (ctl.espCal # <<>> /\ heatingOn) => ctl.espCal = <<OffValue>>
\* a report inside the band, the backlash not zero: nothing is issued
HysteresisWitness ==
  /\ IsTempReport /\ ESPcontroller /\ ctl.calls = 1 /\ ctl.espCal = <<>>
  /\ backLash > 0 /\ ~heatingOn
  /\ tgtTemp - backLash <= currentTemp /\ currentTemp <= tgtTemp

----------------------------------------------------------------------------
(* Properties of the schedule driver, checked under SpecSched *)

\* the first checkSchedule call that finds the time synchronised
FirstCall == currentSlot < 0 /\ currentSlot' >= 0
Ascending(sched) ==
  /\ \A i \in 0..5 : sched[i][5] >= 0 /\ sched[i][5] <= 86399
  /\ \A i \in 0..4 : sched[i][5] <= sched[i + 1][5]
Started(sched, t) == {i \in 0..5 : sched[i][5] <= t}
LatestSlot(sched, t) ==
  IF Started(sched, t) = {} THEN 5
  ELSE CHOOSE i \in Started(sched, t) : \A j \in Started(sched, t) : j <= i
\* seconds from t to the boundary that ends the slot
SecondsLeft(sched, slot, t) ==
  IF slot < 5 THEN sched[slot + 1][5] - t
  ELSE IF sched[0][5] - t < 0 THEN sched[0][5] - t + 86400 ELSE sched[0][5] - t
IsS3(sched) ==
  /\ sched[0][5] = 21600 /\ sched[1][5] = 30600 /\ sched[2][5] = 32400
  /\ sched[3][5] = 45000 /\ sched[4][5] = 59400 /\ sched[5][5] = 79200

\* C9: the first checkSchedule call with the time synchronised, the slots 0..5
\* ascending and t the second of the day, sets current_slot to the largest i
\* in 0..5 with schedule[i] <= t, or to 5 when there is none; the slot is
\* always one of 0..5, whatever slots 6 and 7 hold.
SlotSelection ==
  /\ [](currentSlot \in -1..5)
  /\ [][(FirstCall /\ Ascending(schedule)) =>
          /\ timeSynchronized
          /\ currentSlot' = LatestSlot(schedule, wallSecs)]_vars
\* t precedes slot 0 and the first call chose slot 5
SlotSelectionWitness ==
  /\ currentSlot = 5 /\ nTicks = 1 /\ op = <<"beat">> /\ Ascending(schedule)
  /\ schedule[0][5] > wallSecs /\ schedule[6][5] # schedule[7][5]

\* C10: the first checkSchedule call sets slot_duration to the seconds from t
\* to the next slot boundary: schedule[current_slot + 1] - t for a slot below
\* 5, schedule[0] - t, plus 86400 if negative, for slot 5.  With the slots
\* 21600, 30600, 32400, 45000, 59400, 79200: t = 40000 gives slot 2 and
\* 5000 s, and slot 2 is left only for slot 3 once more than 5000 s have
\* passed; t = 82800 gives slot 5 and 25200 s.
InitialDuration ==
  /\ [][(FirstCall /\ Ascending(schedule)) =>
          slotDuration' = 1000 * SecondsLeft(schedule, currentSlot', wallSecs)]_vars
  /\ [][(FirstCall /\ IsS3(schedule) /\ wallSecs = 40000) =>
          (currentSlot' = 2 /\ slotDuration' = 5000 * 1000)]_vars
  /\ [][(FirstCall /\ IsS3(schedule) /\ wallSecs = 82800) =>
          (currentSlot' = 5 /\ slotDuration' = 25200 * 1000)]_vars
  /\ [][(IsS3(schedule) /\ currentSlot = 2 /\ currentSlot' # 2) =>
          (currentSlot' = 3 /\ millis - startTime > slotDuration)]_vars
\* slot 2 was entered at t = 40000 and left for slot 3 after its 5000 s
InitialDurationWitness ==
  /\ IsS3(schedule) /\ currentSlot = 3 /\ startTime > 5000 * 1000
  /\ startTime <= 5016 * 1000 /\ slotDuration = (59400 - 45000) * 1000

----------------------------------------------------------------------------
(* Properties of a schedule cycle, checked under SpecCycle *)

\* the milliseconds of the activations i .. j
RECURSIVE SumEntered(_, _)
SumEntered(i, j) == IF i > j THEN 0 ELSE entered[i][2] + SumEntered(i + 1, j)
\* the full length of a slot, in milliseconds
FullLength(slot) ==
  (IF slot < 5 THEN schedule[slot + 1][5] - schedule[slot][5]
   ELSE 86400 + schedule[0][5] - schedule[5][5]) * 1000

\* C11 as stated: for slots in ascending order, the durations of the initial
\* slot and of the next five advances add up to 86400 seconds.
CycleFromStart ==
  (Ascending(schedule) /\ Len(entered) >= 6) => SumEntered(1, 6) = 86400 * 1000

\* C11 amended: for slots in ascending order, the durations of six
\* consecutive advances add up to 86400 seconds; the initial slot and the
\* next five advances add up to 86400 seconds less the part of the initial
\* slot that was over at t (its full length less its initial duration).
CycleOfAdvances ==
  Ascending(schedule) =>
    /\ \A i \in 2..(Len(entered) - 5) : SumEntered(i, i + 5) = 86400 * 1000
    /\ Len(entered) >= 6 =>
         SumEntered(1, 6) = 86400 * 1000 - (FullLength(entered[1][1]) - entered[1][2])
CycleOfAdvancesWitness ==
  /\ IsS3(schedule) /\ Len(entered) = 7
  /\ entered[1] = <<2, 5000 * 1000>>
  /\ SumEntered(1, 6) = 78800 * 1000
  /\ SumEntered(2, 7) = 86400 * 1000

----------------------------------------------------------------------------
(* Properties of the target temperature sent on a slot change, checked      *)
(* under SpecSched                                                          *)

\* a datapoint frame of command 6 for the MCU
IsDpWrite(f, dp) == Len(f.bytes) >= 8 /\ f.bytes[4] = 6 /\ f.bytes[7] = dp
IsDp2(f) == IsDpWrite(f, 2)
\* the datapoint 2 frame of type int that carries v
Dp2Frame(v) == [port |-> 0, bytes |-> WithSum(<<85, 170, 0, 6, 0, 8, 2, 2, 0, 4>> \o U32Bytes(v))]

\* C12 as stated: whenever the schedule driver enters a slot with the
\* configuration loaded, exactly one datapoint 2 frame of type int is written
\* to the MCU and its value is the slot's temperature in tenths of a degree,
\* also for a temperature that is not a whole number of degrees.
TargetOnSlotChange ==
  [][(Len(entered') > Len(entered) /\ configLoaded)
       => SelectSeq(out', IsDp2) = <<Dp2Frame(schedule[currentSlot'][4])>>]_vars
\* the slot of 21.5 degrees is entered and 21.0 degrees are sent
TargetTruncated ==
  /\ op = <<"beat">> /\ configLoaded /\ Len(entered) = 2 /\ currentSlot = 3
  /\ schedule[3][4] = 215
  /\ SelectSeq(out, IsDp2) = <<Dp2Frame(210)>>

----------------------------------------------------------------------------
(* Properties of the schedule editor, checked under SpecSlots *)

\* the update about to be handled sets a field of one of the 8 slots
ValidEdit ==
  /\ op'[1] = "edit" /\ op'[2] \in {"slotTime", "slotTemp"}
  /\ op'[3] \in {"1", "2", "3", "4", "5", "6", "7", "8"}
SixteenthEdit == ValidEdit /\ slotCnt = 2 * TIME_SLOTS - 1
\* HH, MM, TH, TL of the slots i .. 7
RECURSIVE SlotBytes(_, _)
SlotBytes(sched, i) ==
  IF i > 7 THEN <<>>
  ELSE <<sched[i][0], sched[i][1], sched[i][2], sched[i][3]>> \o SlotBytes(sched, i + 1)
\* the datapoint 43 frame of type raw with the 32 bytes of the schedule
Dp43Frame(sched) ==
  [port |-> 0, bytes |-> WithSum(<<85, 170, 0, 6, 0, 36, 43, 0, 0, 32>> \o SlotBytes(sched, 0))]
IsDp43(f) == IsDpWrite(f, 43)

\* C13 as stated: the 16th valid slot update since the start or the last
\* flush writes exactly one datapoint 43 frame holding the schedule and
\* resets the edit counter; no earlier update writes a datapoint 43 frame.
SlotBatchAlways ==
  [][(op'[1] = "edit") =>
       IF SixteenthEdit
       THEN slotCnt' = 0 /\ SelectSeq(out', IsDp43) = <<Dp43Frame(schedule')>>
       ELSE SelectSeq(out', IsDp43) = <<>>]_vars

\* C13 amended: the edit counter counts the valid slot updates; the 16th
\* resets it to 0 and, if the configuration is loaded, writes the datapoint
\* 43 frame with the 32 bytes HH, MM, TH, TL of the slots 0..7 and nothing
\* else; if the configuration is not loaded it writes nothing.  No other
\* update writes a datapoint 43 frame.
SlotBatchLoaded ==
  /\ [](slotCnt \in 0..(2 * TIME_SLOTS - 1))
  /\ [][(op'[1] = "edit") =>
          IF SixteenthEdit
          THEN /\ slotCnt' = 0
               /\ out' = IF configLoaded THEN <<Dp43Frame(schedule')>> ELSE <<>>
          ELSE /\ SelectSeq(out', IsDp43) = <<>>
               /\ slotCnt' = slotCnt + (IF ValidEdit THEN 1 ELSE 0)]_vars
\* the second flush: the schedule with 06:00 / 21.5 in slot 0 and 23:05 / 15 in slot 7
SlotBatchWitness ==
  /\ nOps >= 4 * TIME_SLOTS /\ slotCnt = 0 /\ op[1] = "edit" /\ configLoaded
  /\ out = <<Dp43Frame(schedule)>>
  /\ SlotBytes(schedule, 0) =
       <<6, 0, 0, 215>> \o [i \in 1..24 |-> 0] \o <<23, 5, 0, 150>>

----------------------------------------------------------------------------
(* Properties of the heartbeat cadence, checked under SpecBeat *)

\* C14 as stated: a tick that begins before any reply was received sleeps
\* 1 s and logs a missed heartbeat unless the reply comes in during the tick;
\* once a reply was received and the MCU replies to every heartbeat, every
\* later tick sleeps 15 s and logs no missed heartbeat, however the reader
\* task and the heartbeat task interleave.
CadenceAfterReply ==
  hbTask.pc = "sleep" =>
    /\ (~hbTask.seen) => (hbInterval = 1 /\ hbTask.missed)
    /\ hbTask.after => (hbInterval = 15 /\ ~hbTask.missed)
\* the MCU has replied to every heartbeat since its first reply, and a tick
\* sleeps 1 s and logs a missed heartbeat
CadenceBroken ==
  /\ hbTask.pc = "sleep" /\ hbTask.after /\ hbTask.awake
  /\ hbInterval = 1 /\ hbTask.missed

----------------------------------------------------------------------------
(* Properties of the heartbeat reply and of the calibration datapoint,      *)
(* checked under SpecCtrl                                                    *)

\* the program mode frame (datapoint 4, enum) and the status query (command 8)
ModeFrame(v) == [port |-> 0, bytes |-> WithSum(<<85, 170, 0, 6, 0, 5, 4, 4, 0, 1, v>>)]
QueryFrame == [port |-> 0, bytes |-> WithSum(<<85, 170, 0, 8, 0, 0>>)]
\* the last operation was a command 0 frame of the MCU with one payload byte
IsHeartbeatReply == op[1] = "mcu" /\ op[2][4] = 0 /\ op[2][6] = 1

\* C15: a command 0 frame marks the heartbeat as received; if its payload byte
\* is 0 the program mode frame (value 0 if the ESP controls, else 1) is written
\* to the MCU and after it the status query, and nothing else; if the byte is
\* not 0 no frame is written.
InitOnFirstReply ==
  IsHeartbeatReply =>
    /\ gotHeartbeat
    /\ out = IF op[2][7] = 0
             THEN <<ModeFrame(IF ESPcontroller THEN 0 ELSE 1), QueryFrame>>
             ELSE <<>>
\* the first reply with the ESP in control: mode 0, then the query
InitOnFirstReplyWitness ==
  /\ IsHeartbeatReply /\ op[2][7] = 0 /\ ESPcontroller /\ gotHeartbeat
  /\ out = <<ModeFrame(0), QueryFrame>>

\* the last operation was a datapoint 20 report of the MCU
IsCalReport(o) == o[1] = "mcu" /\ o[2][4] = 7 /\ o[2][7] = 20

\* C16: with the ESP in control a datapoint 20 report of the MCU changes none
\* of base_cal, target, smoothed temperature, heating_on and backlash,
\* publishes nothing to the UI and writes no frame.
CalReportIgnored ==
  [][(IsCalReport(op') /\ ESPcontroller)
       => /\ baseCal' = baseCal /\ tgtTemp' = tgtTemp /\ currentTemp' = currentTemp
          /\ heatingOn' = heatingOn /\ backLash' = backLash /\ ESPcontroller'
          /\ ui' = <<>> /\ out' = <<>>]_vars
\* a report arrived with the ESP in control and a calibration set by the user
CalReportIgnoredWitness ==
  /\ IsCalReport(op) /\ ESPcontroller /\ baseCal = -125 /\ ui = <<>> /\ out = <<>>
  /\ ctl.cmds = 1 /\ mcuTuya.tuyaDP = 20 /\ mcuTuya.tuyaInt = 15

\* C17 as stated: with the MCU in control, after a datapoint 20 report the
\* mirrored base_cal is the reported value / 10.
CalReportMirrored ==
  [][(IsCalReport(op') /\ ~ESPcontroller) => baseCal' = mcuTuya'.tuyaInt * 10]_vars
\* the MCU reported 1.5 degrees, it was published, and base_cal is still 0
CalReportNotStored ==
  /\ IsCalReport(op) /\ ~ESPcontroller /\ mcuTuya.tuyaDP = 20 /\ mcuTuya.tuyaInt = 15
  /\ ui = <<<<Key("tempCal"), <<"1", ".", "5">>>>>> /\ baseCal = 0

\* the datapoint 20 frame of type int that carries v
Dp20Frame(v) == [port |-> 0, bytes |-> WithSum(<<85, 170, 0, 6, 0, 8, 20, 2, 0, 4>> \o U32Bytes(v))]
\* the tempCal values of the UI: <<text, hundredths, value * 10 cut to an integer>>
CalValues == { << <<"-", "1", ".", "2", "5">>, -125, -12 >>, << <<"2">>, 200, 20 >> }

\* C18: the update tempCal sets base_cal to the value in either mode, and
\* writes one datapoint 20 frame carrying value * 10 to the MCU exactly when the
\* MCU controls and the configuration is loaded; otherwise it writes nothing.
TempCalUpdate ==
  \A c \in CalValues :
    op = <<"ui", "tempCal", c[1]>> =>
      /\ baseCal = c[2]
      /\ out = IF ~ESPcontroller /\ configLoaded THEN <<Dp20Frame(c[3])>> ELSE <<>>
\* both cases happen: a frame with -12, and no frame with the ESP in control
TempCalUpdateWitness ==
  /\ op = <<"ui", "tempCal", <<"-", "1", ".", "2", "5">>>> /\ baseCal = -125
  /\ ~ESPcontroller /\ configLoaded /\ Len(out) = 1
  /\ SubSeq(out[1].bytes, 7, 14) = <<20, 2, 0, 4, 255, 255, 255, 244>>
TempCalSilentWitness ==
  /\ op = <<"ui", "tempCal", <<"2">>>> /\ baseCal = 200
  /\ ESPcontroller /\ configLoaded /\ out = <<>>

----------------------------------------------------------------------------
(* Properties of the sniffer build, checked under SpecSniffer *)

\* the bytes, one write each, as they appear on port p
Passed(bytes, p) == [i \in 1..Len(bytes) |-> [port |-> p, bytes |-> <<bytes[i]>>]]

\* C19: with USE_SNIFFER set every byte read on a port is written to the
\* other port unchanged and in the order of arrival; processMCUcmd is never
\* called, the parsed frame record and the mirrored state never change,
\* nothing is published, and heartBeat and updateAppStatus write no frame.
SnifferPassThrough ==
  [][ /\ op'[1] = "mcu" => out' = Passed(op'[2], 1)
      /\ op'[1] = "wifi" => out' = Passed(op'[2], 0)
      /\ op'[1] \in {"ui", "beat"} => out' = <<>>
      /\ ctl'.cmds = 0 /\ ui' = <<>>
      /\ UNCHANGED <<mcuTuya, gotHeartbeat, heatingElapsed, currentTemp, alpha, drift,
                     ESPcontroller, tgtTemp, backLash, baseCal, heatingOn, schedule,
                     slotCnt, currentSlot, slotDuration, dpStartTime, hbInterval>> ]_vars
\* a whole datapoint 5 report read on the wifi port was decoded and passed on
\* to the MCU port byte by byte, and heating is still off
SnifferWitness ==
  /\ USE_SNIFFER /\ op = <<"wifi", McuBool(5, 1)>>
  /\ Len(delivered) = 1 /\ delivered[1].bytes = McuBool(5, 1)
  /\ Len(out) = 12 /\ out[1] = [port |-> 0, bytes |-> <<85>>] /\ out[11].bytes = <<1>>
  /\ ~heatingOn /\ mcuTuya.tuyaDP = 0 /\ ctl.cmds = 0

----------------------------------------------------------------------------
(* Properties of the heating time, checked under SpecHeat *)

\* C20 as stated: after any sequence of datapoint 5 reports, repeated ON and
\* repeated OFF reports among them, heating_elapsed never decreases and is the
\* sum over the heating sessions that are over of the time from the report
\* that turned heating on to the report that turned it off.
HeatingAccount ==
  /\ [](heatingElapsed = session.total)
  /\ [][heatingElapsed' >= heatingElapsed]_vars
\* heating was on for 30 s, reported twice, and 15 s are accounted for
HeatingShort ==
  /\ op = <<"mcu", McuBool(5, 0)>> /\ ~heatingOn /\ millis = 31000
  /\ session = [since |-> -1, total |-> 30000] /\ heatingElapsed = 15000

----------------------------------------------------------------------------
(* Properties of unknown input, checked under SpecCtrl *)

\* the commands and the datapoints the dispatcher has a case for
KnownCmds == {0, 1, 2, 3, 4, 7, 28}
KnownDPs == {1, 2, 3, 4, 5, 8, 13, 16, 20, 21, 25, 26, 31, 41, 42, 43, 101, 105, 107}
\* the operation was a frame of the MCU with an unknown command or datapoint
IsUnknown(o) ==
  /\ o[1] = "mcu"
  /\ o[2][4] \notin KnownCmds \/ (o[2][4] = 7 /\ o[2][7] \notin KnownDPs)

\* C24: a delivered frame of the MCU whose command is none of 0, 1, 2, 3, 4,
\* 7, 28, or whose command is 7 with a datapoint outside the enumerated set,
\* changes none of heating_on, target, smoothed temperature, backlash,
\* base_cal, heating_elapsed, schedule, control mode and the heartbeat flag,
\* publishes nothing and writes no frame.
UnknownIgnored ==
  [][(IsUnknown(op') /\ Len(delivered') = 1 /\ delivered'[1].bytes = op'[2])
       => /\ UNCHANGED <<heatingOn, tgtTemp, currentTemp, backLash, baseCal,
                         heatingElapsed, schedule, ESPcontroller, gotHeartbeat>>
          /\ ui' = <<>> /\ out' = <<>>]_vars
\* an unknown command with payload 0 was dispatched before any heartbeat reply
UnknownCmdWitness ==
  /\ IsUnknown(op) /\ op[2][4] = 5 /\ Len(delivered) = 1 /\ ctl.cmds = 1
  /\ mcuTuya.tuyaCmd = 5 /\ mcuTuya.tuyaData[0] = 0 /\ ~gotHeartbeat
  /\ ui = <<>> /\ out = <<>>
\* an unknown datapoint was dispatched with the ESP in control
UnknownDpWitness ==
  /\ IsUnknown(op) /\ op[2][4] = 7 /\ op[2][7] = 99 /\ Len(delivered) = 1
  /\ mcuTuya.tuyaDP = 99 /\ mcuTuya.tuyaInt = 15 /\ ESPcontroller /\ ui = <<>> /\ out = <<>>

----------------------------------------------------------------------------
(* Properties of the tasks and the mutexes, checked under SpecTasks *)

\* reader r has passed on a part of the frame it is reading and not yet the rest
MidFrame(r) ==
  /\ task[r].pc = "read" /\ task[r].bytes # <<>>
  /\ Len(task[r].bytes) < Len(McuFrame(0, <<0>>))

\* C21 as stated: every write to a port, by the heartbeat task, the UI
\* encoder, the dispatcher's replies and the readers' forwarding, is made by a
\* task that holds writeMutex, and a frame of processTuyaMsg never comes on a
\* port between the bytes another task is writing there.
WriteSerialized ==
  /\ wire.by # "none" => wire.locked
  /\ \A r \in Readers :
       (wire.by \notin {"none", r} /\ wire.port = 1 - Port(r)) => ~(USE_SNIFFER /\ MidFrame(r))
\* the sniffer build is passing a frame of the wifi module on to the MCU, and
\* the web monitor's heartbeat command has been written to the MCU in between
InjectedMidFrame ==
  /\ USE_SNIFFER /\ MidFrame("wifi") /\ readMutex = "wifi"
  /\ wire = [port |-> 0, bytes |-> WithSum(<<85, 170, 0, 0, 0, 0>>), by |-> "ui", locked |-> TRUE]

\* reader t is between its xSemaphoreTake and its xSemaphoreGive of readMutex
Draining(t) == task[t].pc \in {"flush", "read", "give", "wtake", "write", "wgive"}
\* the step reads a byte in reader t
ReadsByte(t) ==
  /\ task[t].pc = "read" /\ task[t].bytes # <<>> /\ task'[t].bytes = Tail(task[t].bytes)
\* the accumulator of port p has taken byte b: stored, moved to the front as
\* the end of a header, or handed over as the last byte of a message
Fed(p, b) ==
  \/ tuyaIdx'[p] = tuyaIdx[p] + 1 /\ tuyaData'[p][tuyaIdx[p]] = b
  \/ tuyaIdx'[p] = 2 /\ haveHdr'[p] /\ ~haveHdr[p] /\ tuyaData'[p][1] = b
  \/ /\ tuyaIdx'[p] = 0 /\ Len(delivered') = 1 /\ delivered'[1].port = p
     /\ delivered'[1].bytes[Len(delivered'[1].bytes)] = b
Untouched(p) ==
  /\ tuyaIdx'[p] = tuyaIdx[p] /\ haveHdr'[p] = haveHdr[p]
  /\ msgLen'[p] = msgLen[p] /\ tuyaData'[p] = tuyaData[p]

\* C22: at most one reader task is between taking and giving readMutex, and
\* it holds the mutex; each byte read on port X goes, in the order of arrival,
\* into the accumulator of port X^1 and leaves that of port X alone; a reader
\* waiting for an event holds no mutex, also after an error event, whose
\* handling leaves both accumulators as they were; no other step touches them.
ReadSerialized ==
  /\ [](\A t \in Readers : /\ Draining(t) => readMutex = t
                           /\ task[t].pc \in {"wait", "take"} => readMutex # t)
  /\ [][\A t \in Readers :
          /\ ReadsByte(t) => (Fed(1 - Port(t), Head(task[t].bytes)) /\ Untouched(Port(t)))
          /\ (task'[t] # task[t] /\ task[t].ev = "error") => (Untouched(0) /\ Untouched(1))
          /\ (\A r \in Readers : ~ReadsByte(r)) => (Untouched(0) /\ Untouched(1))]_vars
\* mcuTask waits for readMutex with its event in hand while wifiTask is in the
\* middle of a frame, of which the accumulator of port 0 holds the first bytes
ReadSerializedWitness ==
  /\ task["mcu"].pc = "take" /\ readMutex = "wifi" /\ MidFrame("wifi")
  /\ tuyaIdx[0] = Len(McuFrame(0, <<0>>)) - Len(task["wifi"].bytes) /\ tuyaIdx[0] > 2
  /\ haveHdr[0] /\ tuyaIdx[1] = 0

\* the heartbeat frame
BeatFrame == WithSum(<<85, 170, 0, 0, 0, 0>>)

\* C23: in the thermostat build every call of heartBeat begins with the
\* heartbeat frame (command 0, no data), whether the last heartbeat was
\* answered or not, and under fair scheduling the heartbeat task writes that
\* frame to the MCU again and again for ever, whatever frames, error events,
\* UI updates and web monitor commands come in between.
HeartbeatForever ==
  /\ [][(task["hb"].pc = "idle" /\ task'["hb"] # task["hb"] /\ ~USE_SNIFFER)
         => (task'["hb"].pc = "wtake"
             /\ Head(task'["hb"].pend) = [valid |-> TRUE, port |-> 0, bytes |-> BeatFrame])]_vars
  /\ []<>(USE_SNIFFER \/ (/\ task["hb"].pc = "wgive"
                          /\ Head(task["hb"].pend).bytes = BeatFrame
                          /\ wire = [port |-> 0, bytes |-> BeatFrame, by |-> "hb", locked |-> TRUE]))
\* a heartbeat was written although the one before it was not answered, while
\* mcuTask holds readMutex and waits for writeMutex to answer the MCU
HeartbeatForeverWitness ==
  /\ ~USE_SNIFFER /\ wire.by = "hb" /\ wire.bytes = BeatFrame /\ writeMutex = "hb"
  /\ hbInterval = 1 /\ task["mcu"].pc = "wtake" /\ readMutex = "mcu"

\* C26: a task that asks for writeMutex does not hold it, a task that asks for
\* readMutex holds neither mutex, the holder of a mutex a task waits for is
\* never itself waiting for a mutex that task holds, a task holds a mutex
\* exactly between its take and its give, and under fair scheduling every task
\* that waits for a mutex gets it.
DeadlockFree ==
  /\ [](\A t \in Tasks :
          /\ task[t].pc = "wtake" =>
                /\ writeMutex # t
                /\ writeMutex # "free" => task[writeMutex].pc \in {"write", "wgive"}
          /\ task[t].pc = "take" =>
                /\ writeMutex # t /\ readMutex # t
                /\ readMutex # "free" => Draining(readMutex)
          /\ writeMutex = t <=> task[t].pc \in {"write", "wgive"}
          /\ readMutex = t <=> (t \in Readers /\ Draining(t)))
  /\ \A t \in Tasks : []<>(task[t].pc # "wtake")
  /\ \A t \in Readers : []<>(task[t].pc # "take")
\* the one nesting: mcuTask holds readMutex and waits for writeMutex, which the
\* heartbeat task holds, while the web server's task waits for it too
DeadlockFreeWitness ==
  /\ readMutex = "mcu" /\ task["mcu"].pc = "wtake" /\ Len(task["mcu"].pend) = 2
  /\ writeMutex = "hb" /\ task["hb"].pc = "write" /\ task["ui"].pc = "wtake"

\* the names updateAppStatus knows
Variables ==
  {"tgtTemp", "floorMax", "tempSensor", "progMode", "frost", "switchDisp", "childLock",
   "roomMax", "tempCal", "espCal", "tempLash", "daySetting", "backLight", "doReset",
   "doReverse", "slotTime", "slotTemp", "alpha", "drift", "setCtrl"}
\* the operation is a UI update that is to be dropped: a slot update whose
\* slot number is not one of 1..8, or a name that is not known
InvalidUpdate(o) ==
  /\ o[1] = "ui"
  /\ \/ o[2] \in {"slotTime", "slotTemp"} /\ Atoi(o[3]) \notin 1..TIME_SLOTS
     \/ o[2] \notin Variables
\* the operation is a message to processTuyaMsg with an invalid destination
InvalidDest(o) == o[1] = "web" /\ o[2][1] \notin {"M", "W"}
\* nothing the controller works with has changed
ControlSame ==
  UNCHANGED <<schedule, slotCnt, ESPcontroller, tgtTemp, backLash, baseCal, heatingOn,
              alpha, drift, currentTemp, heatingElapsed, currentSlot, changedSlot>>

\* C25 as stated: an update of slot 0, 9 or 10, or of a name that is not known,
\* leaves the schedule, the count of slot edits and the controller's state as
\* they were and makes no call of processTuyaMsg; a message whose first
\* character is neither M nor W is written to no port, and writeMutex, taken
\* for it, is free again when processTuyaMsg returns.
InvalidInputDropped ==
  [][/\ InvalidUpdate(op') => (ControlSame /\ task'["ui"].pc = "idle" /\ out' = <<>>)
     /\ InvalidDest(op') =>
          (ControlSame /\ task'["ui"].pc = "wtake"
           /\ task'["ui"].pend = <<[valid |-> FALSE, port |-> -1, bytes |-> <<>>]>>)
     /\ (task["ui"].pc = "write" /\ ~Head(task["ui"].pend).valid /\ task'["ui"].pc = "wgive")
          => (wire' = wire /\ writeMutex' = "ui")
     /\ (task["ui"].pc = "wgive" /\ task'["ui"].pc # "wgive") => writeMutex' = "free"]_vars
\* the update of slotTime10 was taken for one of slot 1: the first slot of the
\* schedule holds its time and an edit was counted
Slot10Accepted ==
  /\ op = <<"ui", "slotTime", <<"1", "0">>, <<"0", "7", ":", "1", "5">>>>
  /\ schedule[0][0] = 7 /\ schedule[0][1] = 15 /\ schedule[0][SECS_COL] = 26100
  /\ slotCnt = 1
\* what holds of invalid input in the code: as C25, for slot numbers whose
\* first character is not one of 1..8
InvalidUpdate1(o) ==
  /\ o[1] = "ui"
  /\ \/ o[2] \in {"slotTime", "slotTemp"} /\ Atoi(<<CharAt(o[3], 1)>>) \notin 1..TIME_SLOTS
     \/ o[2] \notin Variables
InvalidInputDropped1 ==
  [][/\ InvalidUpdate1(op') => (ControlSame /\ task'["ui"].pc = "idle" /\ out' = <<>>)
     /\ InvalidDest(op') =>
          (ControlSame /\ task'["ui"].pc = "wtake"
           /\ task'["ui"].pend = <<[valid |-> FALSE, port |-> -1, bytes |-> <<>>]>>)
     /\ (task["ui"].pc = "write" /\ ~Head(task["ui"].pend).valid /\ task'["ui"].pc = "wgive")
          => (wire' = wire /\ writeMutex' = "ui")
     /\ (task["ui"].pc = "wgive" /\ task'["ui"].pc # "wgive") => writeMutex' = "free"]_vars

\* the names updateAppStatus makes a datapoint frame for (tempCal: unless the
\* ESP is the controller)
FrameNames == Variables \ {"slotTime", "slotTemp", "alpha", "drift", "tempCal"}
\* the step is the sending of task t's call
Sends(t) == update[t].pc = "send" /\ update'[t].pc = "idle"

\* C27 as stated: with the configuration loaded, every call of updateAppStatus
\* for a name that has a datapoint frame writes exactly that frame, whatever
\* the other tasks' calls do to slotCnt in between, and the schedule frame is
\* written exactly once for every 16 slot edits: never more often, and as
\* often once every call has returned.
UpdatesKeepFrames ==
  /\ [][\A t \in Callers :
          (Sends(t) /\ configLoaded /\ update[t].name \in FrameNames)
             => out' = ProcessTuyaMsg(Begin, update[t].asked).out]_vars
  /\ [](configLoaded => flushed <= nOps \div (TIME_SLOTS * 2))
  /\ []((configLoaded /\ \A t \in Callers : update[t].pc = "idle")
           => flushed = nOps \div (TIME_SLOTS * 2))
\* the reader's espCal call has written the schedule frame in place of its
\* datapoint 20 frame, after the web server's task had counted its 16th edit
\* and before it tested the count
CalFrameReplaced ==
  /\ op = <<"send", "mcu">> /\ update["mcu"].name = "espCal" /\ configLoaded
  /\ out = <<Dp43Frame(schedule)>> /\ nOps = 2 * TIME_SLOTS /\ flushed = 1
  /\ update["ui"].pc = "test" /\ slotCnt = 0
\* the schedule frame was written twice for 16 edits: two calls found the
\* count at 16 before either reset it
ScheduleSentTwice ==
  /\ nOps = 2 * TIME_SLOTS /\ flushed = 2 /\ \A t \in Callers : update[t].pc = "idle"

====
